---- MODULE Spec2Model ----
(***************************************************************************)
(* react-native-gnss-status-checker: the TypeScript frequency-band         *)
(* classifier (index.ts) and the Android native module                     *)
(* (GnssStatusCheckerModule.kt).                                           *)
(*                                                                         *)
(* Numbers.  Frequencies in MHz are fixed-point integers in units of       *)
(* 0.0001 MHz (100 Hz): 1575.42 MHz is 15754200, the default tolerance     *)
(* 1.0 MHz is 10000.  Raw carrier frequencies in Hz are integers.          *)
(* Comparisons and differences are exact; IEEE rounding of the doubles     *)
(* is not modelled.                                                        *)
(***************************************************************************)
EXTENDS Integers, Sequences, FiniteSets, TLC

VARIABLES
    \* ---- JS side: one call of an exported pure function of index.ts
    call,                       \* the call and its arguments
    ret,                        \* what it returned ([kind |-> "none"] before)
    prev,                       \* what the call before it, with the same arguments, returned
    \* ---- native module fields (GnssStatusCheckerModule.kt)
    gnssStatusCallback,         \* field is non-null
    gnssMeasurementsCallback,   \* field is non-null
    currentSatelliteCount,
    satellitesUsedInFix,
    averageSignalToNoiseRatio,
    supportedConstellations,    \* HashSet<Int>
    detectedFrequencies,        \* HashSet<Double>, MHz
    satelliteDataList,          \* MutableList<SatelliteData>
    \* ---- the platform the module runs on
    sdkInt,                     \* Build.VERSION.SDK_INT
    methodsFound,               \* the init block found the reflected GnssStatus methods
    permission,                 \* ACCESS_FINE_LOCATION is granted
    statusRegistered,           \* LocationManager holds the status callback
    measRegistered,             \* LocationManager holds the measurements callback
    \* ---- what the last handler delivered to JS: a settled promise or an event
    out,
    \* ---- handlers taken statement by statement (SpecSteps only)
    updating,                   \* updateSatelliteStatus in progress: position and locals
    getting                     \* getGNSSStatus in progress: position and locals

jsVars == <<call, ret, prev>>
cacheVars == <<currentSatelliteCount, satellitesUsedInFix, averageSignalToNoiseRatio,
               supportedConstellations, detectedFrequencies, satelliteDataList>>
callbackVars == <<gnssStatusCallback, gnssMeasurementsCallback,
                  statusRegistered, measRegistered>>
threadVars == <<updating, getting>>
nativeVars == <<cacheVars, callbackVars, sdkInt, methodsFound, permission, out, threadVars>>
vars == <<jsVars, nativeVars>>

----------------------------------------------------------------------------
(* index.ts: CarrierFrequencies, in units of 0.0001 MHz *)

GPS_L1 == 15754200
GPS_L2 == 12276000
GPS_L3 == 13810500
GPS_L4 == 13799130
GPS_L5 == 11764500
GLONASS_L1_MIN == 15980625
GLONASS_L1_MAX == 16053750
GLONASS_L1_CENTER == 16020000
GLONASS_L2_MIN == 12429375
GLONASS_L2_MAX == 12486250
GLONASS_L2_CENTER == 12460000
GLONASS_L3 == 12020250
GLONASS_L5 == 11764500
QZSS_L1 == 15754200
QZSS_L2 == 12276000
QZSS_L5 == 11764500
QZSS_LEX == 12787500
GALILEO_E1 == 15754200
GALILEO_E5 == 11917950
GALILEO_E5a == 11764500
GALILEO_E5b == 12071400
GALILEO_E6 == 12787500
BEIDOU_B1 == 15610980
BEIDOU_B1_2 == 15897420
BEIDOU_B2 == 12071400
BEIDOU_B2a == 11764500
BEIDOU_B3 == 12685200
NAVIC_L5 == 11764500
NAVIC_S == 24920280
SBAS_L1 == 15754200
SBAS_L5 == 11764500

\* identifyFrequencyBand's default parameter: tolerance = 1.0
DefaultTolerance == 10000

\* Math.abs without the sign flip
AbsNoFlip(x) == x

\* Math.abs
Abs(x) == IF x < 0 THEN -x ELSE x

\* a FrequencyBandInfo object literal
FrequencyBandInfo(f, c, b, d) ==
    [frequency |-> f, constellation |-> c, band |-> b, isDualFrequency |-> d]

\* the tests of identifyFrequencyBand from GLONASS L5 on
BandsAfterGlonassL2(freq, tolerance) ==
    IF Abs(freq - GLONASS_L5) <= tolerance
        THEN FrequencyBandInfo(freq, "GLONASS", "L5", TRUE)
    ELSE IF Abs(freq - GALILEO_E1) <= tolerance
        THEN FrequencyBandInfo(freq, "GALILEO", "E1", FALSE)
    ELSE IF Abs(freq - GALILEO_E5a) <= tolerance
        THEN FrequencyBandInfo(freq, "GALILEO", "E5a", TRUE)
    ELSE IF Abs(freq - GALILEO_E5b) <= tolerance
        THEN FrequencyBandInfo(freq, "GALILEO", "E5b", TRUE)
    ELSE IF Abs(freq - BEIDOU_B1) <= tolerance
        THEN FrequencyBandInfo(freq, "BEIDOU", "B1", FALSE)
    ELSE IF Abs(freq - BEIDOU_B2a) <= tolerance
        THEN FrequencyBandInfo(freq, "BEIDOU", "B2a", TRUE)
    ELSE IF Abs(freq - BEIDOU_B3) <= tolerance
        THEN FrequencyBandInfo(freq, "BEIDOU", "B3", TRUE)
    ELSE IF Abs(freq - QZSS_L1) <= tolerance
        THEN FrequencyBandInfo(freq, "QZSS", "L1", FALSE)
    ELSE IF Abs(freq - QZSS_L5) <= tolerance
        THEN FrequencyBandInfo(freq, "QZSS", "L5", TRUE)
    ELSE IF Abs(freq - NAVIC_L5) <= tolerance
        THEN FrequencyBandInfo(freq, "NAVIC", "L5", TRUE)
    ELSE IF Abs(freq - NAVIC_S) <= tolerance
        THEN FrequencyBandInfo(freq, "NAVIC", "S", TRUE)
    ELSE IF Abs(freq - SBAS_L1) <= tolerance
        THEN FrequencyBandInfo(freq, "SBAS", "L1", FALSE)
    ELSE IF Abs(freq - SBAS_L5) <= tolerance
        THEN FrequencyBandInfo(freq, "SBAS", "L5", TRUE)
    ELSE FrequencyBandInfo(freq, "UNKNOWN", "UNKNOWN", FALSE)

\* identifyFrequencyBand whose GPS L5 test was left out
identifyFrequencyBandNoGpsL5(frequencyMHz, tolerance) ==
    LET freq == frequencyMHz IN
    IF Abs(freq - GPS_L1) <= tolerance
        THEN FrequencyBandInfo(freq, "GPS", "L1", FALSE)
    ELSE IF Abs(freq - GPS_L2) <= tolerance
        THEN FrequencyBandInfo(freq, "GPS", "L2", TRUE)
    ELSE IF freq >= GLONASS_L1_MIN - tolerance /\ freq <= GLONASS_L1_MAX + tolerance
        THEN FrequencyBandInfo(freq, "GLONASS", "L1", FALSE)
    ELSE IF freq >= GLONASS_L2_MIN - tolerance /\ freq <= GLONASS_L2_MAX + tolerance
        THEN FrequencyBandInfo(freq, "GLONASS", "L2", TRUE)
    ELSE BandsAfterGlonassL2(freq, tolerance)

\* identifyFrequencyBand with the Galileo E1 test moved in front of the GPS tests
identifyFrequencyBandGalileoFirst(frequencyMHz, tolerance) ==
    LET freq == frequencyMHz IN
    IF Abs(freq - GALILEO_E1) <= tolerance
        THEN FrequencyBandInfo(freq, "GALILEO", "E1", FALSE)
    ELSE IF Abs(freq - GPS_L1) <= tolerance
        THEN FrequencyBandInfo(freq, "GPS", "L1", FALSE)
    ELSE IF Abs(freq - GPS_L2) <= tolerance
        THEN FrequencyBandInfo(freq, "GPS", "L2", TRUE)
    ELSE IF Abs(freq - GPS_L5) <= tolerance
        THEN FrequencyBandInfo(freq, "GPS", "L5", TRUE)
    ELSE IF freq >= GLONASS_L1_MIN - tolerance /\ freq <= GLONASS_L1_MAX + tolerance
        THEN FrequencyBandInfo(freq, "GLONASS", "L1", FALSE)
    ELSE IF freq >= GLONASS_L2_MIN - tolerance /\ freq <= GLONASS_L2_MAX + tolerance
        THEN FrequencyBandInfo(freq, "GLONASS", "L2", TRUE)
    ELSE BandsAfterGlonassL2(freq, tolerance)

\* identifyFrequencyBand flagging GLONASS L1 as dual-frequency
identifyFrequencyBandGlonassL1Dual(frequencyMHz, tolerance) ==
    LET freq == frequencyMHz IN
    IF Abs(freq - GPS_L1) <= tolerance
        THEN FrequencyBandInfo(freq, "GPS", "L1", FALSE)
    ELSE IF Abs(freq - GPS_L2) <= tolerance
        THEN FrequencyBandInfo(freq, "GPS", "L2", TRUE)
    ELSE IF Abs(freq - GPS_L5) <= tolerance
        THEN FrequencyBandInfo(freq, "GPS", "L5", TRUE)
    ELSE IF freq >= GLONASS_L1_MIN - tolerance /\ freq <= GLONASS_L1_MAX + tolerance
        THEN FrequencyBandInfo(freq, "GLONASS", "L1", TRUE)
    ELSE IF freq >= GLONASS_L2_MIN - tolerance /\ freq <= GLONASS_L2_MAX + tolerance
        THEN FrequencyBandInfo(freq, "GLONASS", "L2", TRUE)
    ELSE BandsAfterGlonassL2(freq, tolerance)

\* identifyFrequencyBand whose GLONASS L2 range test is strict at both ends
identifyFrequencyBandStrictL2(frequencyMHz, tolerance) ==
    LET freq == frequencyMHz IN
    IF Abs(freq - GPS_L1) <= tolerance
        THEN FrequencyBandInfo(freq, "GPS", "L1", FALSE)
    ELSE IF Abs(freq - GPS_L2) <= tolerance
        THEN FrequencyBandInfo(freq, "GPS", "L2", TRUE)
    ELSE IF Abs(freq - GPS_L5) <= tolerance
        THEN FrequencyBandInfo(freq, "GPS", "L5", TRUE)
    ELSE IF freq >= GLONASS_L1_MIN - tolerance /\ freq <= GLONASS_L1_MAX + tolerance
        THEN FrequencyBandInfo(freq, "GLONASS", "L1", FALSE)
    ELSE IF freq > GLONASS_L2_MIN - tolerance /\ freq < GLONASS_L2_MAX + tolerance
        THEN FrequencyBandInfo(freq, "GLONASS", "L2", TRUE)
    ELSE BandsAfterGlonassL2(freq, tolerance)

\* index.ts: identifyFrequencyBand(frequencyMHz, tolerance = 1.0)
identifyFrequencyBand(frequencyMHz, tolerance) ==
    LET freq == frequencyMHz IN
    IF Abs(freq - GPS_L1) <= tolerance
        THEN FrequencyBandInfo(freq, "GPS", "L1", FALSE)
    ELSE IF Abs(freq - GPS_L2) <= tolerance
        THEN FrequencyBandInfo(freq, "GPS", "L2", TRUE)
    ELSE IF Abs(freq - GPS_L5) <= tolerance
        THEN FrequencyBandInfo(freq, "GPS", "L5", TRUE)
    ELSE IF freq >= GLONASS_L1_MIN - tolerance /\ freq <= GLONASS_L1_MAX + tolerance
        THEN FrequencyBandInfo(freq, "GLONASS", "L1", FALSE)
    ELSE IF freq >= GLONASS_L2_MIN - tolerance /\ freq <= GLONASS_L2_MAX + tolerance
        THEN FrequencyBandInfo(freq, "GLONASS", "L2", TRUE)
    ELSE IF Abs(freq - GLONASS_L5) <= tolerance
        THEN FrequencyBandInfo(freq, "GLONASS", "L5", TRUE)
    ELSE IF Abs(freq - GALILEO_E1) <= tolerance
        THEN FrequencyBandInfo(freq, "GALILEO", "E1", FALSE)
    ELSE IF Abs(freq - GALILEO_E5a) <= tolerance
        THEN FrequencyBandInfo(freq, "GALILEO", "E5a", TRUE)
    ELSE IF Abs(freq - GALILEO_E5b) <= tolerance
        THEN FrequencyBandInfo(freq, "GALILEO", "E5b", TRUE)
    ELSE IF Abs(freq - BEIDOU_B1) <= tolerance
        THEN FrequencyBandInfo(freq, "BEIDOU", "B1", FALSE)
    ELSE IF Abs(freq - BEIDOU_B2a) <= tolerance
        THEN FrequencyBandInfo(freq, "BEIDOU", "B2a", TRUE)
    ELSE IF Abs(freq - BEIDOU_B3) <= tolerance
        THEN FrequencyBandInfo(freq, "BEIDOU", "B3", TRUE)
    ELSE IF Abs(freq - QZSS_L1) <= tolerance
        THEN FrequencyBandInfo(freq, "QZSS", "L1", FALSE)
    ELSE IF Abs(freq - QZSS_L5) <= tolerance
        THEN FrequencyBandInfo(freq, "QZSS", "L5", TRUE)
    ELSE IF Abs(freq - NAVIC_L5) <= tolerance
        THEN FrequencyBandInfo(freq, "NAVIC", "L5", TRUE)
    ELSE IF Abs(freq - NAVIC_S) <= tolerance
        THEN FrequencyBandInfo(freq, "NAVIC", "S", TRUE)
    ELSE IF Abs(freq - SBAS_L1) <= tolerance
        THEN FrequencyBandInfo(freq, "SBAS", "L1", FALSE)
    ELSE IF Abs(freq - SBAS_L5) <= tolerance
        THEN FrequencyBandInfo(freq, "SBAS", "L5", TRUE)
    ELSE FrequencyBandInfo(freq, "UNKNOWN", "UNKNOWN", FALSE)

\* isDualFrequencySupported written with every() in place of some()
RECURSIVE isDualFrequencySupportedEvery(_)
isDualFrequencySupportedEvery(carrierFrequencies) ==
    IF carrierFrequencies = <<>> THEN TRUE
    ELSE IF ~identifyFrequencyBand(Head(carrierFrequencies), DefaultTolerance).isDualFrequency
        THEN FALSE
    ELSE isDualFrequencySupportedEvery(Tail(carrierFrequencies))

\* index.ts: isDualFrequencySupported: carrierFrequencies.some(...), left to right
RECURSIVE isDualFrequencySupported(_)
isDualFrequencySupported(carrierFrequencies) ==
    IF carrierFrequencies = <<>> THEN FALSE
    ELSE IF identifyFrequencyBand(Head(carrierFrequencies), DefaultTolerance).isDualFrequency
        THEN TRUE
    ELSE isDualFrequencySupported(Tail(carrierFrequencies))

\* isNavICSupported(supportedConstellations): Array.includes('IRNSS'); the
\* parameter is named names here, supportedConstellations being a field below
isNavICSupported(names) ==
    \E i \in 1..Len(names) : names[i] = "IRNSS"

\* getFrequencyBandInfo classifying each distinct frequency once
RECURSIVE getFrequencyBandInfoDistinct(_)
getFrequencyBandInfoDistinct(carrierFrequencies) ==
    IF carrierFrequencies = <<>> THEN <<>>
    ELSE LET n == Len(carrierFrequencies)
             init == SubSeq(carrierFrequencies, 1, n - 1)
             last == carrierFrequencies[n]
         IN IF \E i \in 1..(n - 1) : init[i] = last
               THEN getFrequencyBandInfoDistinct(init)
               ELSE Append(getFrequencyBandInfoDistinct(init),
                           identifyFrequencyBand(last, DefaultTolerance))

\* getFrequencyBandInfo(carrierFrequencies): Array.map of identifyFrequencyBand
\* with the default tolerance
getFrequencyBandInfo(carrierFrequencies) ==
    [i \in 1..Len(carrierFrequencies) |->
        identifyFrequencyBand(carrierFrequencies[i], DefaultTolerance)]

----------------------------------------------------------------------------
(* index.ts: the satellite aggregators.  A SatelliteInfo is a record with the  *)
(* fields of the interface; an optional field that is undefined is <<>>, one    *)
(* that holds v is <<v>>.  cn0DbHz is in 0.1 dB-Hz.  Array.prototype.filter   *)
(* is SelectSeq: a new array of the elements that pass, in array order.       *)

\* getSatellitesByConstellation taking every type code from the given one up
getSatellitesByConstellationLoose(satellites, constellationType) ==
    LET Test(sat) == sat.constellationType >= constellationType
    IN SelectSeq(satellites, Test)

\* getSatellitesByConstellation(satellites, constellationType)
getSatellitesByConstellation(satellites, constellationType) ==
    LET Test(sat) == sat.constellationType = constellationType
    IN SelectSeq(satellites, Test)

\* getSatellitesUsedInFix without the first satellite that is used in the fix
getSatellitesUsedInFixDropFirst(satellites) ==
    LET Test(sat) == sat.usedInFix
    IN IF SelectSeq(satellites, Test) = <<>> THEN <<>> ELSE Tail(SelectSeq(satellites, Test))

\* getSatellitesUsedInFix(satellites)
getSatellitesUsedInFix(satellites) ==
    LET Test(sat) == sat.usedInFix
    IN SelectSeq(satellites, Test)

\* minCn0: number = 20
DefaultMinCn0 == 200

\* getSatellitesWithGoodSignal reading an undefined cn0DbHz as 0
getSatellitesWithGoodSignalDefaultZero(satellites, minCn0) ==
    LET Test(sat) == (IF sat.cn0DbHz # <<>> THEN sat.cn0DbHz[1] ELSE 0) >= minCn0
    IN SelectSeq(satellites, Test)

\* getSatellitesWithGoodSignal(satellites, minCn0)
getSatellitesWithGoodSignal(satellites, minCn0) ==
    LET Test(sat) == sat.cn0DbHz # <<>> /\ sat.cn0DbHz[1] >= minCn0
    IN SelectSeq(satellites, Test)

\* the forEach of getSatelliteStatistics setting each count to 1
RECURSIVE byConstellationNoIncrement(_, _)
byConstellationNoIncrement(satellites, acc) ==
    IF satellites = <<>> THEN acc
    ELSE LET name == Head(satellites).constellationName
         IN byConstellationNoIncrement(Tail(satellites),
                IF name \in DOMAIN acc THEN acc ELSE acc @@ (name :> 1))

\* the forEach of getSatelliteStatistics that groups by constellation:
\* byConstellation[name] = (byConstellation[name] || 0) + 1
RECURSIVE byConstellation(_, _)
byConstellation(satellites, acc) ==
    IF satellites = <<>> THEN acc
    ELSE LET name == Head(satellites).constellationName
         IN byConstellation(Tail(satellites),
                IF name \in DOMAIN acc
                   THEN [acc EXCEPT ![name] = @ + 1]
                   ELSE acc @@ (name :> 1))

\* signalStrengths with an undefined cn0DbHz taken as 0
signalStrengthsOfAbsentAsZero(satellites) ==
    [i \in 1..Len(satellites) |->
        IF satellites[i].cn0DbHz # <<>> THEN satellites[i].cn0DbHz[1] ELSE 0]

\* signalStrengths: SelectSeq(cn0DbHz !== undefined).map(cn0DbHz!)
signalStrengthsOf(satellites) ==
    LET Test(sat) == sat.cn0DbHz # <<>>
        present == SelectSeq(satellites, Test)
    IN [i \in 1..Len(present) |-> present[i].cn0DbHz[1]]

\* Math.max(...signalStrengths) and Math.min(...signalStrengths), list not empty
MathMax(signalStrengths) ==
    CHOOSE m \in {signalStrengths[i] : i \in 1..Len(signalStrengths)} :
        \A i \in 1..Len(signalStrengths) : signalStrengths[i] <= m
MathMin(signalStrengths) ==
    CHOOSE m \in {signalStrengths[i] : i \in 1..Len(signalStrengths)} :
        \A i \in 1..Len(signalStrengths) : signalStrengths[i] >= m

RECURSIVE reduceSum(_)
reduceSum(signalStrengths) ==
    IF signalStrengths = <<>> THEN 0
    ELSE Head(signalStrengths) + reduceSum(Tail(signalStrengths))

\* the signal statistics without the length test: 0 / 0, and Math.max() and
\* Math.min() of no argument (-Infinity and Infinity, here beyond every signal)
signalStatisticsNoGuard(signalStrengths) ==
    IF Len(signalStrengths) > 0
       THEN [averageSignalStrength |->
                [num |-> reduceSum(signalStrengths), den |-> Len(signalStrengths)],
             strongestSignal |-> MathMax(signalStrengths),
             weakestSignal |-> MathMin(signalStrengths)]
       ELSE [averageSignalStrength |-> [num |-> 0, den |-> 0],
             strongestSignal |-> -1000000000,
             weakestSignal |-> 1000000000]

\* averageSignalStrength, strongestSignal, weakestSignal: 0 unless
\* signalStrengths.length > 0; the average is the quotient sum / length, kept as
\* the pair of the two (num / den)
signalStatistics(signalStrengths) ==
    IF Len(signalStrengths) > 0
       THEN [averageSignalStrength |->
                [num |-> reduceSum(signalStrengths), den |-> Len(signalStrengths)],
             strongestSignal |-> MathMax(signalStrengths),
             weakestSignal |-> MathMin(signalStrengths)]
       ELSE [averageSignalStrength |-> [num |-> 0, den |-> 1],
             strongestSignal |-> 0,
             weakestSignal |-> 0]

\* getSatelliteStatistics(satellites)
getSatelliteStatistics(satellites) ==
    LET used(sat) == sat.usedInFix
        eph(sat) == sat.hasEphemeris
        alm(sat) == sat.hasAlmanac
        good(sat) == sat.cn0DbHz # <<>> /\ sat.cn0DbHz[1] >= 200
        signals == signalStatistics(signalStrengthsOf(satellites))
    IN [total |-> Len(satellites),
        usedInFix |-> Len(SelectSeq(satellites, used)),
        withEphemeris |-> Len(SelectSeq(satellites, eph)),
        withAlmanac |-> Len(SelectSeq(satellites, alm)),
        withGoodSignal |-> Len(SelectSeq(satellites, good)),
        byConstellation |-> byConstellation(satellites, <<>>),
        averageSignalStrength |-> signals.averageSignalStrength,
        strongestSignal |-> signals.strongestSignal,
        weakestSignal |-> signals.weakestSignal]

----------------------------------------------------------------------------
(* Inputs of the JS calls *)

\* longest frequency list passed to isDualFrequencySupported
MaxList == 2

\* every value of CarrierFrequencies
Nominals ==
    {GPS_L1, GPS_L2, GPS_L3, GPS_L4, GPS_L5,
     GLONASS_L1_MIN, GLONASS_L1_MAX, GLONASS_L1_CENTER,
     GLONASS_L2_MIN, GLONASS_L2_MAX, GLONASS_L2_CENTER, GLONASS_L3, GLONASS_L5,
     QZSS_L1, QZSS_L2, QZSS_L5, QZSS_LEX,
     GALILEO_E1, GALILEO_E5, GALILEO_E5a, GALILEO_E5b, GALILEO_E6,
     BEIDOU_B1, BEIDOU_B1_2, BEIDOU_B2, BEIDOU_B2a, BEIDOU_B3,
     NAVIC_L5, NAVIC_S, SBAS_L1, SBAS_L5}

\* distances from a nominal value: on it, next to it, on and just past 1.0 MHz,
\* on and just past 10.0 MHz
Offsets == {0, 1, -1, 5000, -5000, 10000, -10000, 10001, -10001, 11000, -11000,
            100000, -100000, 100001, -100001}

\* frequencies passed to identifyFrequencyBand (9999.0 MHz, 0 and 1000.0 MHz are
\* far from every band)
SampleFrequencies ==
    {n + d : n \in Nominals, d \in Offsets} \cup {99990000, 0, 10000000}

\* tolerances passed to identifyFrequencyBand: -1.0, 0, 0.5, 1.0 (default), 10.0, 50.0
SampleTolerances == {-10000, 0, 5000, DefaultTolerance, 100000, 500000}

\* frequencies the lists are made of
ListFrequencies ==
    {GPS_L1, GPS_L5, GPS_L5 + 10000, GPS_L5 + 10001, GALILEO_E6, GLONASS_L2_CENTER,
     99990000}

SeqsUpTo(S, n) == UNION {[1..k -> S] : k \in 0..n}

\* longest satellite list passed to an aggregator
MaxSatInfos == 3

\* GnssConstellations
GnssConstellations ==
    [UNKNOWN |-> 0, GPS |-> 1, SBAS |-> 2, GLONASS |-> 3, QZSS |-> 4, BEIDOU |-> 5,
     GALILEO |-> 6, IRNSS |-> 7]

\* a SatelliteInfo; elevation, azimuth and carrierFrequencyHz are undefined
SatelliteInfo(svid, type, name, cn0, eph, alm, used) ==
    [svid |-> svid, constellationType |-> type, constellationName |-> name,
     hasEphemeris |-> eph, hasAlmanac |-> alm, usedInFix |-> used,
     cn0DbHz |-> cn0, elevation |-> <<>>, azimuth |-> <<>>, carrierFrequencyHz |-> <<>>]

\* satellites the lists are made of: signals 25.0, 30.0, undefined, 20.0 and 0.0
SampleSatelliteInfos ==
    {SatelliteInfo(1, GnssConstellations.GPS, "GPS", <<250>>, TRUE, TRUE, TRUE),
     SatelliteInfo(2, GnssConstellations.GPS, "GPS", <<300>>, TRUE, FALSE, FALSE),
     SatelliteInfo(3, GnssConstellations.IRNSS, "IRNSS", <<>>, FALSE, TRUE, TRUE),
     SatelliteInfo(4, GnssConstellations.GLONASS, "GLONASS", <<200>>, FALSE, FALSE, FALSE),
     SatelliteInfo(5, GnssConstellations.UNKNOWN, "UNKNOWN", <<0>>, TRUE, TRUE, FALSE)}

SatelliteLists == SeqsUpTo(SampleSatelliteInfos, MaxSatInfos)

\* thresholds passed as minCn0: -1.0, 0, 20.0 (default), 20.1, 30.0
SampleMinCn0 == {-10, 0, DefaultMinCn0, 201, 300}

\* constellation types passed to getSatellitesByConstellation
SampleConstellationTypes ==
    {GnssConstellations.UNKNOWN, GnssConstellations.GPS, GnssConstellations.BEIDOU,
     GnssConstellations.IRNSS}

AggregatorCalls ==
    {[fn |-> "getSatellitesByConstellation", satellites |-> l, constellationType |-> c] :
        l \in SatelliteLists, c \in SampleConstellationTypes}
    \cup {[fn |-> "getSatellitesUsedInFix", satellites |-> l] : l \in SatelliteLists}
    \cup {[fn |-> "getSatellitesWithGoodSignal", satellites |-> l, minCn0 |-> m] :
            l \in SatelliteLists, m \in SampleMinCn0}
    \cup {[fn |-> "getSatelliteStatistics", satellites |-> l] : l \in SatelliteLists}

JsCalls ==
    {[fn |-> "identifyFrequencyBand", frequencyMHz |-> f, tolerance |-> t] :
        f \in SampleFrequencies, t \in SampleTolerances}
    \cup {[fn |-> "isDualFrequencySupported", carrierFrequencies |-> l] :
            l \in SeqsUpTo(ListFrequencies, MaxList)}
    \cup {[fn |-> "getFrequencyBandInfo", carrierFrequencies |-> l] :
            l \in SeqsUpTo(ListFrequencies, MaxList)}
    \cup AggregatorCalls

NoCall == [fn |-> "none"]
NoRet == [kind |-> "none"]

----------------------------------------------------------------------------
(* JS calls *)

CallIdentifyFrequencyBand ==
    /\ call.fn = "identifyFrequencyBand"
    /\ ret = NoRet
    /\ ret' = [kind |-> "FrequencyBandInfo",
               value |-> identifyFrequencyBand(call.frequencyMHz, call.tolerance)]
    /\ UNCHANGED <<call, prev, nativeVars>>

CallIsDualFrequencySupported ==
    /\ call.fn = "isDualFrequencySupported"
    /\ ret = NoRet
    /\ ret' = [kind |-> "boolean",
               value |-> isDualFrequencySupported(call.carrierFrequencies)]
    /\ UNCHANGED <<call, prev, nativeVars>>

CallGetFrequencyBandInfo ==
    /\ call.fn = "getFrequencyBandInfo"
    /\ ret = NoRet
    /\ ret' = [kind |-> "FrequencyBandInfo[]",
               value |-> getFrequencyBandInfo(call.carrierFrequencies)]
    /\ UNCHANGED <<call, prev, nativeVars>>

\* an aggregator is called, up to twice, on the list as the call before left it;
\* none of them assigns to its argument or to a record of it
CallGetSatellitesByConstellation ==
    /\ call.fn = "getSatellitesByConstellation"
    /\ prev = NoRet
    /\ ret' = [kind |-> "SatelliteInfo[]",
               value |-> getSatellitesByConstellation(call.satellites, call.constellationType)]
    /\ prev' = ret
    /\ UNCHANGED <<call, nativeVars>>

CallGetSatellitesUsedInFix ==
    /\ call.fn = "getSatellitesUsedInFix"
    /\ prev = NoRet
    /\ ret' = [kind |-> "SatelliteInfo[]",
               value |-> getSatellitesUsedInFix(call.satellites)]
    /\ prev' = ret
    /\ UNCHANGED <<call, nativeVars>>

CallGetSatellitesWithGoodSignal ==
    /\ call.fn = "getSatellitesWithGoodSignal"
    /\ prev = NoRet
    /\ ret' = [kind |-> "SatelliteInfo[]",
               value |-> getSatellitesWithGoodSignal(call.satellites, call.minCn0)]
    /\ prev' = ret
    /\ UNCHANGED <<call, nativeVars>>

CallGetSatelliteStatistics ==
    /\ call.fn = "getSatelliteStatistics"
    /\ prev = NoRet
    /\ ret' = [kind |-> "stats", value |-> getSatelliteStatistics(call.satellites)]
    /\ prev' = ret
    /\ UNCHANGED <<call, nativeVars>>

----------------------------------------------------------------------------
(* GnssStatusCheckerModule.kt: companion object and platform constants *)

CONSTELLATION_UNKNOWN == 0
CONSTELLATION_GPS == 1
CONSTELLATION_SBAS == 2
CONSTELLATION_GLONASS == 3
CONSTELLATION_QZSS == 4
CONSTELLATION_BEIDOU == 5
CONSTELLATION_GALILEO == 6
CONSTELLATION_IRNSS == 7

\* FREQ_TOLERANCE = 10.0 MHz
FREQ_TOLERANCE == 100000

\* DUAL_FREQUENCY_BANDS without the 1176.45 entry
DUAL_FREQUENCY_BANDS_NoL5 == {12276000, 12071400, 12685200, 12787500, 11917950, 24920280}

\* the keys of DUAL_FREQUENCY_BANDS
DUAL_FREQUENCY_BANDS == {11764500, 12276000, 12071400, 12685200, 12787500, 11917950, 24920280}

\* the companion object's GLONASS L2 range
Kt_GLONASS_L2_MIN == 12429375
Kt_GLONASS_L2_MAX == 12486250

\* Build.VERSION_CODES.N, O
VERSION_CODES_N == 24
VERSION_CODES_O == 26

\* a Kotlin nullable: null is <<>>, a value v is <<v>>
Null == <<>>
Some(v) == <<v>>

\* supportsAdvancedGnssFeatures()
supportsAdvancedGnssFeatures == sdkInt >= VERSION_CODES_N

\* supportsCarrierFrequency()
supportsCarrierFrequency == sdkInt >= VERSION_CODES_O

\* getConstellationName naming IRNSS by its other name
getConstellationNameNavIC(constellation) ==
    CASE constellation = CONSTELLATION_GPS -> "GPS"
      [] constellation = CONSTELLATION_SBAS -> "SBAS"
      [] constellation = CONSTELLATION_GLONASS -> "GLONASS"
      [] constellation = CONSTELLATION_QZSS -> "QZSS"
      [] constellation = CONSTELLATION_BEIDOU -> "BEIDOU"
      [] constellation = CONSTELLATION_GALILEO -> "GALILEO"
      [] constellation = CONSTELLATION_IRNSS -> "NAVIC"
      [] OTHER -> "UNKNOWN"

\* getConstellationName(constellation)
getConstellationName(constellation) ==
    CASE constellation = CONSTELLATION_GPS -> "GPS"
      [] constellation = CONSTELLATION_SBAS -> "SBAS"
      [] constellation = CONSTELLATION_GLONASS -> "GLONASS"
      [] constellation = CONSTELLATION_QZSS -> "QZSS"
      [] constellation = CONSTELLATION_BEIDOU -> "BEIDOU"
      [] constellation = CONSTELLATION_GALILEO -> "GALILEO"
      [] constellation = CONSTELLATION_IRNSS -> "IRNSS"
      [] OTHER -> "UNKNOWN"

\* safeHasCn0DbHz ... safeGetAzimuthDegrees: the Method fields are set by the
\* getMethod lookups of the init block, which finds them all or, failing at a
\* lookup, leaves them null; a null Method makes the safe call yield false / 0f
safeHasCn0DbHz(sat) == IF methodsFound THEN sat.hasCn0DbHz ELSE FALSE
safeGetCn0DbHz(sat) == IF methodsFound THEN sat.cn0DbHz ELSE 0
safeHasElevationDegrees(sat) == IF methodsFound THEN sat.hasElevation ELSE FALSE
safeGetElevationDegrees(sat) == IF methodsFound THEN sat.elevation ELSE 0
safeHasAzimuthDegrees(sat) == IF methodsFound THEN sat.hasAzimuth ELSE FALSE
safeGetAzimuthDegrees(sat) == IF methodsFound THEN sat.azimuth ELSE 0

\* the SatelliteData(...) built in updateSatelliteStatus for entry sat of the status
SatelliteData(sat) ==
    [svid |-> sat.svid,
     constellationType |-> sat.constellationType,
     constellationName |-> getConstellationName(sat.constellationType),
     hasEphemeris |-> sat.hasEphemerisData,
     hasAlmanac |-> sat.hasAlmanacData,
     usedInFix |-> sat.usedInFix,
     cn0DbHz |-> IF sdkInt >= VERSION_CODES_N /\ safeHasCn0DbHz(sat)
                    THEN Some(safeGetCn0DbHz(sat)) ELSE Null,
     elevation |-> IF sdkInt >= VERSION_CODES_N /\ safeHasElevationDegrees(sat)
                      THEN Some(safeGetElevationDegrees(sat)) ELSE Null,
     azimuth |-> IF sdkInt >= VERSION_CODES_N /\ safeHasAzimuthDegrees(sat)
                    THEN Some(safeGetAzimuthDegrees(sat)) ELSE Null,
     carrierFrequencyHz |-> IF supportsCarrierFrequency /\ sat.hasCarrierFrequencyHz
                               THEN Some(sat.carrierFrequencyHz) ELSE Null]

\* SatelliteData.toWritableMap(): an absent key is <<>>
toWritableMap(satellite) == satellite

RECURSIVE Gcd(_, _)
Gcd(a, b) == IF b = 0 THEN a ELSE Gcd(b, a % b)

\* a Double that is a quotient, as the reduced fraction num/den
Quotient(n, d) == [num |-> n \div Gcd(n, d), den |-> d \div Gcd(n, d)]

\* the Double 0.0
Zero == Quotient(0, 1)

RECURSIVE SumSeq(_)
SumSeq(s) == IF s = <<>> THEN 0 ELSE Head(s) + SumSeq(Tail(s))

\* Iterable<Float>.average()
average(signalStrengths) == Quotient(SumSeq(signalStrengths), Len(signalStrengths))

\* the order in which a HashSet<Int> of small codes (0..15, default capacity 16) is
\* iterated: by bucket index, which is the code itself
RECURSIVE HashSetOrder(_)
HashSetOrder(S) ==
    IF S = {} THEN <<>>
    ELSE LET m == CHOOSE x \in S : \A y \in S : x <= y
         IN <<m>> \o HashSetOrder(S \ {m})

\* the bucket of a Double in a HashSet of default capacity 16:
\* h = bits ^ (bits >>> 32), (h ^ (h >>> 16)) & 15, for the frequencies the
\* measurements below give (1575.42, 1176.45 and 1202.025 MHz)
DoubleBucket(f) ==
    CASE f = 15754200 -> 4
      [] f = 11764500 -> 15
      [] f = 12020250 -> 8

\* the order in which the HashSet<Double> is iterated: by bucket
RECURSIVE HashSetOrderDouble(_)
HashSetOrderDouble(S) ==
    IF S = {} THEN <<>>
    ELSE LET m == CHOOSE x \in S : \A y \in S : DoubleBucket(x) <= DoubleBucket(y)
         IN <<m>> \o HashSetOrderDouble(S \ {m})

\* the for loop of updateSatelliteStatus counting every satellite as used in the fix
RECURSIVE SatelliteLoopCountsAll(_, _, _)
SatelliteLoopCountsAll(status, i, acc) ==
    IF i > Len(status) THEN acc
    ELSE LET constellation == status[i].constellationType
             satelliteInfo == SatelliteData(status[i])
         IN SatelliteLoopCountsAll(status, i + 1,
                [used |-> acc.used + 1,
                 constellations |-> acc.constellations \cup {constellation},
                 list |-> Append(acc.list, satelliteInfo),
                 signals |-> IF satelliteInfo.cn0DbHz # Null
                                THEN Append(acc.signals, satelliteInfo.cn0DbHz[1])
                                ELSE acc.signals])

\* the for loop of updateSatelliteStatus taking an absent C/N0 as 0
RECURSIVE SatelliteLoopAbsentAsZero(_, _, _)
SatelliteLoopAbsentAsZero(status, i, acc) ==
    IF i > Len(status) THEN acc
    ELSE LET constellation == status[i].constellationType
             usedInFix == status[i].usedInFix
             satelliteInfo == SatelliteData(status[i])
         IN SatelliteLoopAbsentAsZero(status, i + 1,
                [used |-> IF usedInFix THEN acc.used + 1 ELSE acc.used,
                 constellations |-> acc.constellations \cup {constellation},
                 list |-> Append(acc.list, satelliteInfo),
                 signals |-> IF satelliteInfo.cn0DbHz # Null
                                THEN Append(acc.signals, satelliteInfo.cn0DbHz[1])
                                ELSE Append(acc.signals, 0)])

\* the body of the for loop of updateSatelliteStatus, from entry i on; acc carries
\* satellitesUsedInFix, supportedConstellations, satelliteDataList, signalStrengths
RECURSIVE SatelliteLoop(_, _, _)
SatelliteLoop(status, i, acc) ==
    IF i > Len(status) THEN acc
    ELSE LET constellation == status[i].constellationType
             usedInFix == status[i].usedInFix
             satelliteInfo == SatelliteData(status[i])
         IN SatelliteLoop(status, i + 1,
                [used |-> IF usedInFix THEN acc.used + 1 ELSE acc.used,
                 constellations |-> acc.constellations \cup {constellation},
                 list |-> Append(acc.list, satelliteInfo),
                 signals |-> IF satelliteInfo.cn0DbHz # Null
                                THEN Append(acc.signals, satelliteInfo.cn0DbHz[1])
                                ELSE acc.signals])

\* the dual-frequency test of getGNSSStatus and updateMeasurements
nativeIsDualFrequency(frequencies) ==
    \E freq \in frequencies :
        \/ \E dualFreq \in DUAL_FREQUENCY_BANDS : Abs(freq - dualFreq) <= FREQ_TOLERANCE
        \/ (freq >= Kt_GLONASS_L2_MIN - FREQ_TOLERANCE
            /\ freq <= Kt_GLONASS_L2_MAX + FREQ_TOLERANCE)

\* measurement.carrierFrequencyHz / 1e6, in units of 0.0001 MHz
HzPerUnit == 100
HzToMHz(carrierFrequencyHz) == carrierFrequencyHz \div HzPerUnit

\* sendEvent(eventName, params)
sendEvent(eventName, params) ==
    out' = [kind |-> "event", name |-> eventName, params |-> params]

\* promise.resolve(value) and promise.reject(code, message)
resolve(op, value) ==
    out' = [kind |-> "promise", op |-> op, state |-> "resolved", value |-> value]
reject(op, code) ==
    out' = [kind |-> "promise", op |-> op, state |-> "rejected", code |-> code]

\* hasLocationPermission() stubbed to true
hasLocationPermissionStub == TRUE

\* hasLocationPermission()
hasLocationPermission == permission

----------------------------------------------------------------------------
(* What the platform delivers *)

\* most satellites in one GnssStatus
MaxSats == 2
\* most measurements in one GnssMeasurementsEvent
MaxMeas == 2

\* one entry of a GnssStatus; cn0DbHz in 0.1 dB-Hz, angles in degrees, carrier in Hz
GnssSat(svid, type, used, eph, alm, hasCn0, cn0, hasCf, cf) ==
    [svid |-> svid, constellationType |-> type, usedInFix |-> used,
     hasEphemerisData |-> eph, hasAlmanacData |-> alm,
     hasCn0DbHz |-> hasCn0, cn0DbHz |-> cn0,
     hasElevation |-> hasCn0, elevation |-> 45,
     hasAzimuth |-> hasCn0, azimuth |-> 180,
     hasCarrierFrequencyHz |-> hasCf, carrierFrequencyHz |-> cf]

SampleSatellites ==
    {GnssSat(3, CONSTELLATION_IRNSS, TRUE, TRUE, TRUE, TRUE, 250, TRUE, 1176450000),
     GnssSat(2, CONSTELLATION_UNKNOWN, FALSE, FALSE, FALSE, TRUE, 155, FALSE, 0),
     GnssSat(4, 9, TRUE, TRUE, FALSE, FALSE, 0, FALSE, 0)}

\* a GnssStatus lists a satellite once
GnssStatuses ==
    {s \in SeqsUpTo(SampleSatellites, MaxSats) :
        \A i, j \in 1..Len(s) : i # j => s[i] # s[j]}

\* one GnssMeasurement: hasCarrierFrequencyHz() and carrierFrequencyHz
SampleMeasurements ==
    {[hasCarrierFrequencyHz |-> TRUE, carrierFrequencyHz |-> 1575420000],
     [hasCarrierFrequencyHz |-> TRUE, carrierFrequencyHz |-> 1176450000],
     [hasCarrierFrequencyHz |-> TRUE, carrierFrequencyHz |-> 1202025000],
     [hasCarrierFrequencyHz |-> FALSE, carrierFrequencyHz |-> 0]}

\* event.measurements is a collection whose entries updateMeasurements adds to a
\* set: one order (by carrier frequency) stands for every order of the same entries
GnssMeasurementsEvents ==
    {e \in SeqsUpTo(SampleMeasurements, MaxMeas) :
        \A i \in 1..(Len(e) - 1) : e[i].carrierFrequencyHz <= e[i + 1].carrierFrequencyHz}

\* how a call into LocationManager ends
RegisterOutcomes == {"ok", "false", "throws"}
UnregisterOutcomes == {"ok", "throws"}
ProviderOutcomes == {"enabled", "disabled", "throws"}

\* Build.VERSION.SDK_INT: below N, N, O
SdkLevels == {VERSION_CODES_N - 1, VERSION_CODES_N, VERSION_CODES_O}

----------------------------------------------------------------------------
(* GnssStatusCheckerModule.kt: the React methods and the callbacks *)

\* the WritableNativeMap getGNSSStatus resolves with
GnssStatusResult(provider) ==
    [isGNSSSupported |-> (provider = "enabled"),
     satellitesVisible |-> currentSatelliteCount,
     satellitesUsedInFix |-> satellitesUsedInFix,
     averageSignalToNoiseRatio |-> averageSignalToNoiseRatio,
     apiLevel |-> sdkInt,
     supportsCn0 |-> supportsAdvancedGnssFeatures,
     supportsCarrierFreq |-> supportsCarrierFrequency,
     supportedConstellations |->
        [i \in 1..Cardinality(supportedConstellations) |->
            getConstellationName(HashSetOrder(supportedConstellations)[i])],
     carrierFrequencies |-> HashSetOrderDouble(detectedFrequencies),
     satellites |-> [i \in 1..Len(satelliteDataList) |-> toWritableMap(satelliteDataList[i])],
     isDualFrequencySupported |-> nativeIsDualFrequency(detectedFrequencies),
     isNavICSupported |-> (CONSTELLATION_IRNSS \in supportedConstellations)]

\* @ReactMethod getGNSSStatus(promise); provider is how isProviderEnabled ends
getGNSSStatus(provider) ==
    /\ IF ~hasLocationPermission
          THEN reject("getGNSSStatus", "PERMISSION_DENIED")
       ELSE IF provider = "throws"
          THEN reject("getGNSSStatus", "GNSS_ERROR")
       ELSE resolve("getGNSSStatus", GnssStatusResult(provider))
    /\ UNCHANGED <<jsVars, threadVars, cacheVars, callbackVars, sdkInt, methodsFound, permission>>

\* @ReactMethod startListening(promise); regStatus and regMeas are how
\* registerGnssStatusCallback and registerGnssMeasurementsCallback end
startListening(regStatus, regMeas) ==
    LET needStatus == ~gnssStatusCallback
        needMeas == sdkInt >= VERSION_CODES_N /\ ~gnssMeasurementsCallback
    IN
    /\ IF ~hasLocationPermission
          THEN /\ reject("startListening", "PERMISSION_DENIED")
               /\ UNCHANGED callbackVars
       ELSE IF needStatus /\ regStatus = "throws"
          THEN /\ gnssStatusCallback' = TRUE
               /\ UNCHANGED <<statusRegistered, gnssMeasurementsCallback, measRegistered>>
               /\ reject("startListening", "START_LISTENING_ERROR")
       ELSE /\ gnssStatusCallback' = TRUE
            /\ statusRegistered' = IF needStatus THEN regStatus = "ok" ELSE statusRegistered
            /\ gnssMeasurementsCallback' = (needMeas \/ gnssMeasurementsCallback)
            /\ IF needMeas /\ regMeas = "throws"
                  THEN /\ UNCHANGED measRegistered
                       /\ reject("startListening", "START_LISTENING_ERROR")
                  ELSE /\ measRegistered' = IF needMeas THEN regMeas = "ok" ELSE measRegistered
                       /\ resolve("startListening", Null)
    /\ UNCHANGED <<jsVars, threadVars, cacheVars, sdkInt, methodsFound, permission>>

\* the "Clear cached data" block without detectedFrequencies.clear()
ClearCachedDataKeepsFrequencies ==
    /\ supportedConstellations' = {}
    /\ UNCHANGED detectedFrequencies
    /\ satelliteDataList' = <<>>
    /\ currentSatelliteCount' = 0
    /\ satellitesUsedInFix' = 0
    /\ averageSignalToNoiseRatio' = Zero

\* the "Clear cached data" block of stopListening
ClearCachedData ==
    /\ supportedConstellations' = {}
    /\ detectedFrequencies' = {}
    /\ satelliteDataList' = <<>>
    /\ currentSatelliteCount' = 0
    /\ satellitesUsedInFix' = 0
    /\ averageSignalToNoiseRatio' = Zero

\* @ReactMethod stopListening(promise); unregStatus and unregMeas are how
\* unregisterGnssStatusCallback and unregisterGnssMeasurementsCallback end
stopListening(unregStatus, unregMeas) ==
    /\ IF gnssStatusCallback /\ unregStatus = "throws"
          THEN /\ UNCHANGED <<callbackVars, cacheVars>>
               /\ reject("stopListening", "STOP_LISTENING_ERROR")
       ELSE /\ gnssStatusCallback' = FALSE
            /\ statusRegistered' = IF gnssStatusCallback THEN FALSE ELSE statusRegistered
            /\ IF sdkInt >= VERSION_CODES_N /\ gnssMeasurementsCallback /\ unregMeas = "throws"
                  THEN /\ UNCHANGED <<gnssMeasurementsCallback, measRegistered, cacheVars>>
                       /\ reject("stopListening", "STOP_LISTENING_ERROR")
                  ELSE /\ IF sdkInt >= VERSION_CODES_N /\ gnssMeasurementsCallback
                             THEN gnssMeasurementsCallback' = FALSE /\ measRegistered' = FALSE
                             ELSE UNCHANGED <<gnssMeasurementsCallback, measRegistered>>
                       /\ ClearCachedData
                       /\ resolve("stopListening", Null)
    /\ UNCHANGED <<jsVars, threadVars, sdkInt, methodsFound, permission>>

\* updateSatelliteStatus that also clears detectedFrequencies
updateSatelliteStatusClearsFrequencies(status) ==
    LET acc == SatelliteLoop(status, 1,
                   [used |-> 0, constellations |-> {}, list |-> <<>>, signals |-> <<>>])
    IN
    /\ currentSatelliteCount' = Len(status)
    /\ satellitesUsedInFix' = acc.used
    /\ supportedConstellations' = acc.constellations
    /\ satelliteDataList' = acc.list
    /\ detectedFrequencies' = {}
    /\ averageSignalToNoiseRatio' =
          IF acc.signals # <<>> THEN average(acc.signals) ELSE Zero
    /\ sendEvent("onSatelliteStatusChanged",
          [satellitesVisible |-> currentSatelliteCount',
           satellitesUsedInFix |-> satellitesUsedInFix',
           averageSignalToNoiseRatio |-> averageSignalToNoiseRatio',
           supportedConstellations |->
              [i \in 1..Cardinality(supportedConstellations') |->
                  getConstellationName(HashSetOrder(supportedConstellations')[i])],
           isNavICSupported |-> (CONSTELLATION_IRNSS \in supportedConstellations'),
           satellites |->
              [i \in 1..Len(satelliteDataList') |-> toWritableMap(satelliteDataList'[i])]])
    /\ UNCHANGED <<jsVars, threadVars, callbackVars, sdkInt, methodsFound, permission>>

\* updateSatelliteStatus building its event before the fields are replaced
updateSatelliteStatusEmitsFirst(status) ==
    LET acc == SatelliteLoop(status, 1,
                   [used |-> 0, constellations |-> {}, list |-> <<>>, signals |-> <<>>])
    IN
    /\ currentSatelliteCount' = Len(status)
    /\ satellitesUsedInFix' = acc.used
    /\ supportedConstellations' = acc.constellations
    /\ satelliteDataList' = acc.list
    /\ averageSignalToNoiseRatio' =
          IF acc.signals # <<>> THEN average(acc.signals) ELSE Zero
    /\ sendEvent("onSatelliteStatusChanged",
          [satellitesVisible |-> currentSatelliteCount,
           satellitesUsedInFix |-> satellitesUsedInFix,
           averageSignalToNoiseRatio |-> averageSignalToNoiseRatio,
           supportedConstellations |->
              [i \in 1..Cardinality(supportedConstellations) |->
                  getConstellationName(HashSetOrder(supportedConstellations)[i])],
           isNavICSupported |-> (CONSTELLATION_IRNSS \in supportedConstellations),
           satellites |->
              [i \in 1..Len(satelliteDataList) |-> toWritableMap(satelliteDataList[i])]])
    /\ UNCHANGED <<jsVars, threadVars, detectedFrequencies, callbackVars,
                   sdkInt, methodsFound, permission>>

\* updateSatelliteStatus(status)
updateSatelliteStatus(status) ==
    LET acc == SatelliteLoop(status, 1,
                   [used |-> 0, constellations |-> {}, list |-> <<>>, signals |-> <<>>])
    IN
    /\ currentSatelliteCount' = Len(status)
    /\ satellitesUsedInFix' = acc.used
    /\ supportedConstellations' = acc.constellations
    /\ satelliteDataList' = acc.list
    /\ averageSignalToNoiseRatio' =
          IF acc.signals # <<>> THEN average(acc.signals) ELSE Zero
    /\ sendEvent("onSatelliteStatusChanged",
          [satellitesVisible |-> currentSatelliteCount',
           satellitesUsedInFix |-> satellitesUsedInFix',
           averageSignalToNoiseRatio |-> averageSignalToNoiseRatio',
           supportedConstellations |->
              [i \in 1..Cardinality(supportedConstellations') |->
                  getConstellationName(HashSetOrder(supportedConstellations')[i])],
           isNavICSupported |-> (CONSTELLATION_IRNSS \in supportedConstellations'),
           satellites |->
              [i \in 1..Len(satelliteDataList') |-> toWritableMap(satelliteDataList'[i])]])
    /\ UNCHANGED <<jsVars, threadVars, detectedFrequencies, callbackVars,
                   sdkInt, methodsFound, permission>>

\* updateMeasurements without detectedFrequencies.clear()
MeasuredFrequenciesMerged(event) ==
    detectedFrequencies \cup
        {HzToMHz(event[i].carrierFrequencyHz) :
            i \in {j \in 1..Len(event) :
                     sdkInt >= VERSION_CODES_O /\ event[j].hasCarrierFrequencyHz}}

\* the frequencies updateMeasurements collects from the event
MeasuredFrequencies(event) ==
    {HzToMHz(event[i].carrierFrequencyHz) :
        i \in {j \in 1..Len(event) :
                 sdkInt >= VERSION_CODES_O /\ event[j].hasCarrierFrequencyHz}}

\* updateMeasurements(event)
updateMeasurements(event) ==
    IF sdkInt >= VERSION_CODES_N
       THEN /\ detectedFrequencies' = MeasuredFrequencies(event)
            /\ sendEvent("onMeasurementsChanged",
                  [carrierFrequencies |-> HashSetOrderDouble(detectedFrequencies'),
                   isDualFrequencySupported |-> nativeIsDualFrequency(detectedFrequencies')])
            /\ UNCHANGED <<jsVars, threadVars, currentSatelliteCount, satellitesUsedInFix,
                           averageSignalToNoiseRatio, supportedConstellations,
                           satelliteDataList, callbackVars, sdkInt, methodsFound, permission>>
       ELSE UNCHANGED vars

\* GnssStatus.Callback.onSatelliteStatusChanged, delivered while registered
onSatelliteStatusChanged ==
    /\ statusRegistered
    /\ \E status \in GnssStatuses : updateSatelliteStatus(status)

\* GnssStatus.Callback.onStarted
onStarted ==
    /\ statusRegistered
    /\ sendEvent("onGnssStarted", Null)
    /\ UNCHANGED <<jsVars, threadVars, cacheVars, callbackVars, sdkInt, methodsFound, permission>>

\* GnssStatus.Callback.onStopped
onStopped ==
    /\ statusRegistered
    /\ sendEvent("onGnssStopped", Null)
    /\ UNCHANGED <<jsVars, threadVars, cacheVars, callbackVars, sdkInt, methodsFound, permission>>

\* GnssMeasurementsEvent.Callback.onGnssMeasurementsReceived, delivered while registered
onGnssMeasurementsReceived ==
    /\ measRegistered
    /\ \E event \in GnssMeasurementsEvents : updateMeasurements(event)

\* GnssMeasurementsEvent.Callback.onStatusChanged
onStatusChanged ==
    /\ measRegistered
    /\ \E status \in 0..2 : sendEvent("onMeasurementStatusChanged", [status |-> status])
    /\ UNCHANGED <<jsVars, threadVars, cacheVars, callbackVars, sdkInt, methodsFound, permission>>

\* JS calls getGNSSStatus()
CallGetGNSSStatus ==
    \E provider \in ProviderOutcomes : getGNSSStatus(provider)

\* JS calls startListening()
CallStartListening ==
    \E regStatus \in RegisterOutcomes, regMeas \in RegisterOutcomes :
        startListening(regStatus, regMeas)

\* JS calls stopListening()
CallStopListening ==
    \E unregStatus \in UnregisterOutcomes, unregMeas \in UnregisterOutcomes :
        stopListening(unregStatus, unregMeas)

\* the user grants or revokes the location permission
SetPermission ==
    /\ permission' = ~permission
    /\ UNCHANGED <<jsVars, threadVars, cacheVars, callbackVars, sdkInt, methodsFound, out>>

----------------------------------------------------------------------------
(* Specifications *)

\* no handler is in progress
Idle == [pc |-> "idle"]

NativeInit ==
    /\ gnssStatusCallback = FALSE
    /\ gnssMeasurementsCallback = FALSE
    /\ currentSatelliteCount = 0
    /\ satellitesUsedInFix = 0
    /\ averageSignalToNoiseRatio = Zero
    /\ supportedConstellations = {}
    /\ detectedFrequencies = {}
    /\ satelliteDataList = <<>>
    /\ statusRegistered = FALSE
    /\ measRegistered = FALSE
    /\ out = [kind |-> "none"]
    /\ updating = Idle
    /\ getting = Idle

\* the native module after construction, on a device of some API level
Init ==
    /\ call = NoCall
    /\ ret = NoRet
    /\ prev = NoRet
    /\ sdkInt \in SdkLevels
    /\ methodsFound \in BOOLEAN
    /\ permission \in BOOLEAN
    /\ NativeInit

Next ==
    \/ CallGetGNSSStatus
    \/ CallStartListening
    \/ CallStopListening
    \/ onSatelliteStatusChanged
    \/ onStarted
    \/ onStopped
    \/ onGnssMeasurementsReceived
    \/ onStatusChanged
    \/ SetPermission

Spec == Init /\ [][Next]_vars

\* one call of an exported function of index.ts
InitJs ==
    /\ call \in JsCalls
    /\ ret = NoRet
    /\ prev = NoRet
    /\ sdkInt = VERSION_CODES_O
    /\ methodsFound = TRUE
    /\ permission = TRUE
    /\ NativeInit

NextJs ==
    \/ CallIdentifyFrequencyBand
    \/ CallIsDualFrequencySupported
    \/ CallGetFrequencyBandInfo
    \/ CallGetSatellitesByConstellation
    \/ CallGetSatellitesUsedInFix
    \/ CallGetSatellitesWithGoodSignal
    \/ CallGetSatelliteStatistics

SpecJs == InitJs /\ [][NextJs]_vars

----------------------------------------------------------------------------
(* updateSatelliteStatus and getGNSSStatus statement by statement.  The module
   holds no lock and its fields are plain fields and collections, so when the
   callback and the React method run on different threads their statements
   interleave.  A step is named after the source line it starts at. *)

\* how a platform call inside a handler ends
CallOutcomes == {"ok", "throws"}

\* most pushes delivered and most getGNSSStatus calls made in one behaviour
MaxPushes == 2
MaxCalls == 1

\* a handler that has run n times and is not running
IdleAfter(n) == [pc |-> "idle", done |-> n]

\* the cached fields as one value
Snapshot ==
    [count |-> currentSatelliteCount, used |-> satellitesUsedInFix,
     average |-> averageSignalToNoiseRatio, constellations |-> supportedConstellations,
     frequencies |-> detectedFrequencies, list |-> satelliteDataList]

\* an exception has left a callback uncaught
Crashed == out.kind = "uncaught"

\* an exception leaves updateSatelliteStatus: nothing in the module catches it
uncaught ==
    /\ out' = [kind |-> "uncaught", handler |-> "updateSatelliteStatus"]
    /\ updating' = [updating EXCEPT !.pc = "thrown"]

\* ArrayList.modCount changes while the iterator of getGNSSStatus is open
Comodified ==
    IF getting.pc = "216" THEN [getting EXCEPT !.modified = TRUE] ELSE getting

\* line 339: currentSatelliteCount = status.satelliteCount (a push is delivered)
update339 ==
    /\ updating.pc = "idle" /\ updating.done < MaxPushes
    /\ statusRegistered /\ ~Crashed
    /\ \E status \in GnssStatuses :
          /\ currentSatelliteCount' = Len(status)
          /\ updating' = [pc |-> "340", done |-> updating.done, status |-> status,
                          i |-> 1, signalStrengths |-> <<>>, before |-> Snapshot]
    /\ UNCHANGED <<jsVars, satellitesUsedInFix, averageSignalToNoiseRatio,
                   supportedConstellations, detectedFrequencies, satelliteDataList,
                   callbackVars, sdkInt, methodsFound, permission, out, getting>>

\* line 340: satellitesUsedInFix = 0
update340 ==
    /\ updating.pc = "340"
    /\ satellitesUsedInFix' = 0
    /\ updating' = [updating EXCEPT !.pc = "341"]
    /\ UNCHANGED <<jsVars, currentSatelliteCount, averageSignalToNoiseRatio,
                   supportedConstellations, detectedFrequencies, satelliteDataList,
                   callbackVars, sdkInt, methodsFound, permission, out, getting>>

\* line 341: supportedConstellations.clear()
update341 ==
    /\ updating.pc = "341"
    /\ supportedConstellations' = {}
    /\ updating' = [updating EXCEPT !.pc = "342"]
    /\ UNCHANGED <<jsVars, currentSatelliteCount, satellitesUsedInFix,
                   averageSignalToNoiseRatio, detectedFrequencies, satelliteDataList,
                   callbackVars, sdkInt, methodsFound, permission, out, getting>>

\* lines 342-345: satelliteDataList.clear(), signalStrengths = mutableListOf()
update342 ==
    /\ updating.pc = "342"
    /\ satelliteDataList' = <<>>
    /\ getting' = Comodified
    /\ updating' = [updating EXCEPT !.pc = "347"]
    /\ UNCHANGED <<jsVars, currentSatelliteCount, satellitesUsedInFix,
                   averageSignalToNoiseRatio, supportedConstellations, detectedFrequencies,
                   callbackVars, sdkInt, methodsFound, permission, out>>

\* lines 347-349: the loop test, status.getConstellationType(i) (which ends as
\* reads says) and supportedConstellations.add(constellation)
update347 ==
    /\ updating.pc = "347"
    /\ IF updating.i > Len(updating.status)
          THEN /\ updating' = [updating EXCEPT !.pc = "377"]
               /\ UNCHANGED <<supportedConstellations, out>>
          ELSE \E reads \in CallOutcomes :
                 IF reads = "throws"
                    THEN uncaught /\ UNCHANGED supportedConstellations
                    ELSE /\ supportedConstellations' = supportedConstellations \cup
                                {updating.status[updating.i].constellationType}
                         /\ updating' = [updating EXCEPT !.pc = "351"]
                         /\ UNCHANGED out
    /\ UNCHANGED <<jsVars, currentSatelliteCount, satellitesUsedInFix,
                   averageSignalToNoiseRatio, detectedFrequencies, satelliteDataList,
                   callbackVars, sdkInt, methodsFound, permission, getting>>

\* lines 351-354: if (usedInFix) satellitesUsedInFix++
update351 ==
    /\ updating.pc = "351"
    /\ satellitesUsedInFix' =
          IF updating.status[updating.i].usedInFix
             THEN satellitesUsedInFix + 1 ELSE satellitesUsedInFix
    /\ updating' = [updating EXCEPT !.pc = "357"]
    /\ UNCHANGED <<jsVars, currentSatelliteCount, averageSignalToNoiseRatio,
                   supportedConstellations, detectedFrequencies, satelliteDataList,
                   callbackVars, sdkInt, methodsFound, permission, out, getting>>

\* lines 357-373: satelliteInfo = SatelliteData(...), satelliteDataList.add(it),
\* signalStrengths.add(cn0DbHz) when present; then the next index
update357 ==
    /\ updating.pc = "357"
    /\ LET satelliteInfo == SatelliteData(updating.status[updating.i]) IN
          /\ satelliteDataList' = Append(satelliteDataList, satelliteInfo)
          /\ updating' = [updating EXCEPT
                !.pc = "347", !.i = @ + 1,
                !.signalStrengths = IF satelliteInfo.cn0DbHz # Null
                                       THEN Append(@, satelliteInfo.cn0DbHz[1]) ELSE @]
    /\ getting' = Comodified
    /\ UNCHANGED <<jsVars, currentSatelliteCount, satellitesUsedInFix,
                   averageSignalToNoiseRatio, supportedConstellations, detectedFrequencies,
                   callbackVars, sdkInt, methodsFound, permission, out>>

\* lines 377-381: averageSignalToNoiseRatio = signalStrengths.average() or 0.0
update377 ==
    /\ updating.pc = "377"
    /\ averageSignalToNoiseRatio' =
          IF updating.signalStrengths # <<>> THEN average(updating.signalStrengths) ELSE Zero
    /\ updating' = [updating EXCEPT !.pc = "384"]
    /\ UNCHANGED <<jsVars, currentSatelliteCount, satellitesUsedInFix,
                   supportedConstellations, detectedFrequencies, satelliteDataList,
                   callbackVars, sdkInt, methodsFound, permission, out, getting>>

\* lines 384-404: eventData is built from the fields and sendEvent is called;
\* emit is how getJSModule(...).emit(...) ends
update384 ==
    /\ updating.pc = "384"
    /\ \E emit \in CallOutcomes :
          IF emit = "throws"
             THEN uncaught
             ELSE /\ sendEvent("onSatelliteStatusChanged",
                        [satellitesVisible |-> currentSatelliteCount,
                         satellitesUsedInFix |-> satellitesUsedInFix,
                         averageSignalToNoiseRatio |-> averageSignalToNoiseRatio,
                         supportedConstellations |->
                            [i \in 1..Cardinality(supportedConstellations) |->
                                getConstellationName(HashSetOrder(supportedConstellations)[i])],
                         isNavICSupported |-> (CONSTELLATION_IRNSS \in supportedConstellations),
                         satellites |->
                            [i \in 1..Len(satelliteDataList) |->
                                toWritableMap(satelliteDataList[i])]])
                  /\ updating' = IdleAfter(updating.done + 1)
    /\ UNCHANGED <<jsVars, cacheVars, callbackVars, sdkInt, methodsFound, permission, getting>>

\* lines 179-198: the permission test, isProviderEnabled (returning normally) and
\* the reads of the three scalar fields
get179 ==
    /\ getting.pc = "idle" /\ getting.done < MaxCalls
    /\ ~Crashed
    /\ IF ~hasLocationPermission
          THEN /\ reject("getGNSSStatus", "PERMISSION_DENIED")
               /\ getting' = IdleAfter(getting.done + 1)
          ELSE \E provider \in ProviderOutcomes \ {"throws"} :
                 /\ getting' = [pc |-> "202", done |-> getting.done,
                                isGNSSSupported |-> (provider = "enabled"),
                                satellitesVisible |-> currentSatelliteCount,
                                satellitesUsedInFix |-> satellitesUsedInFix,
                                averageSignalToNoiseRatio |-> averageSignalToNoiseRatio]
                 /\ UNCHANGED out
    /\ UNCHANGED <<jsVars, cacheVars, callbackVars, sdkInt, methodsFound, permission, updating>>

\* lines 202-216: the forEach over each of the two sets, each taken whole, and
\* satelliteDataList.iterator()
get202 ==
    /\ getting.pc = "202"
    /\ getting' =
          [pc |-> "216", done |-> getting.done,
           isGNSSSupported |-> getting.isGNSSSupported,
           satellitesVisible |-> getting.satellitesVisible,
           satellitesUsedInFix |-> getting.satellitesUsedInFix,
           averageSignalToNoiseRatio |-> getting.averageSignalToNoiseRatio,
           constellationArray |->
              [i \in 1..Cardinality(supportedConstellations) |->
                  getConstellationName(HashSetOrder(supportedConstellations)[i])],
           frequencyArray |-> HashSetOrderDouble(detectedFrequencies),
           satelliteArray |-> <<>>, cursor |-> 0, modified |-> FALSE]
    /\ UNCHANGED <<jsVars, cacheVars, callbackVars, sdkInt, methodsFound, permission,
                   out, updating>>

\* lines 216-219: one round of the forEach over satelliteDataList: hasNext() is
\* cursor != size, next() throws ConcurrentModificationException when the list
\* was modified since iterator(), and the catch at 237 rejects
get216 ==
    /\ getting.pc = "216"
    /\ IF getting.cursor = Len(satelliteDataList)
          THEN /\ getting' = [getting EXCEPT !.pc = "222"]
               /\ UNCHANGED out
       ELSE IF getting.modified
          THEN /\ reject("getGNSSStatus", "GNSS_ERROR")
               /\ getting' = IdleAfter(getting.done + 1)
       ELSE /\ getting' = [getting EXCEPT
                   !.satelliteArray =
                       Append(@, toWritableMap(satelliteDataList[getting.cursor + 1])),
                   !.cursor = @ + 1]
            /\ UNCHANGED out
    /\ UNCHANGED <<jsVars, cacheVars, callbackVars, sdkInt, methodsFound, permission, updating>>

\* lines 222-236: the dual-frequency test, the NavIC test and promise.resolve(result)
get222 ==
    /\ getting.pc = "222"
    /\ resolve("getGNSSStatus",
          [isGNSSSupported |-> getting.isGNSSSupported,
           satellitesVisible |-> getting.satellitesVisible,
           satellitesUsedInFix |-> getting.satellitesUsedInFix,
           averageSignalToNoiseRatio |-> getting.averageSignalToNoiseRatio,
           apiLevel |-> sdkInt,
           supportsCn0 |-> supportsAdvancedGnssFeatures,
           supportsCarrierFreq |-> supportsCarrierFrequency,
           supportedConstellations |-> getting.constellationArray,
           carrierFrequencies |-> getting.frequencyArray,
           satellites |-> getting.satelliteArray,
           isDualFrequencySupported |-> nativeIsDualFrequency(detectedFrequencies),
           isNavICSupported |-> (CONSTELLATION_IRNSS \in supportedConstellations)])
    /\ getting' = IdleAfter(getting.done + 1)
    /\ UNCHANGED <<jsVars, cacheVars, callbackVars, sdkInt, methodsFound, permission, updating>>

\* the module after a startListening that resolved on API 26, nothing pushed yet
InitSteps ==
    /\ call = NoCall
    /\ ret = NoRet
    /\ prev = NoRet
    /\ sdkInt = VERSION_CODES_O
    /\ methodsFound = TRUE
    /\ permission \in BOOLEAN
    /\ gnssStatusCallback = TRUE
    /\ gnssMeasurementsCallback = TRUE
    /\ statusRegistered = TRUE
    /\ measRegistered = TRUE
    /\ currentSatelliteCount = 0
    /\ satellitesUsedInFix = 0
    /\ averageSignalToNoiseRatio = Zero
    /\ supportedConstellations = {}
    /\ detectedFrequencies = {}
    /\ satelliteDataList = <<>>
    /\ out = [kind |-> "promise", op |-> "startListening", state |-> "resolved",
              value |-> Null]
    /\ updating = IdleAfter(0)
    /\ getting = IdleAfter(0)

NextSteps ==
    \/ update339
    \/ update340
    \/ update341
    \/ update342
    \/ update347
    \/ update351
    \/ update357
    \/ update377
    \/ update384
    \/ get179
    \/ get202
    \/ get216
    \/ get222

SpecSteps == InitSteps /\ [][NextSteps]_vars

----------------------------------------------------------------------------
(* Claims about identifyFrequencyBand and isDualFrequencySupported (SpecJs) *)

\* f is at most t away from n
Within(f, n, t) == f - n <= t /\ n - f <= t

\* the call of identifyFrequencyBand has returned
IdentifyDone == call.fn = "identifyFrequencyBand" /\ ret.kind = "FrequencyBandInfo"

\* the call of isDualFrequencySupported has returned
IsDualDone == call.fn = "isDualFrequencySupported" /\ ret.kind = "boolean"

\* the reference table of the specification: [lo, hi] in 0.0001 MHz (lo = hi for a
\* nominal value) and the dual-frequency flag
ReferenceTable ==
    {[lo |-> 15754200, hi |-> 15754200, dual |-> FALSE],   \* GPS/Galileo/QZSS/SBAS L1, E1
     [lo |-> 12276000, hi |-> 12276000, dual |-> TRUE],    \* GPS, QZSS L2
     [lo |-> 11764500, hi |-> 11764500, dual |-> TRUE],    \* L5, E5a, B2a
     [lo |-> 15980625, hi |-> 16053750, dual |-> FALSE],   \* GLONASS L1
     [lo |-> 12429375, hi |-> 12486250, dual |-> TRUE],    \* GLONASS L2
     [lo |-> 12071400, hi |-> 12071400, dual |-> TRUE],    \* E5b, B2
     [lo |-> 11917950, hi |-> 11917950, dual |-> TRUE],    \* E5
     [lo |-> 12787500, hi |-> 12787500, dual |-> TRUE],    \* E6, LEX
     [lo |-> 15610980, hi |-> 15610980, dual |-> FALSE],   \* B1
     [lo |-> 12685200, hi |-> 12685200, dual |-> TRUE],    \* B3
     [lo |-> 24920280, hi |-> 24920280, dual |-> TRUE]}    \* NavIC S

\* f matches table entry e widened by t
InEntry(f, e, t) == f >= e.lo - t /\ f <= e.hi + t

\* C1: every frequency within 1.0 MHz of an entry of the reference table is
\* classified, with the default tolerance, as a known constellation and band,
\* with the frequency passed in and the dual-frequency flag of that entry.
C1_ReferenceTableClassified ==
    (IdentifyDone /\ call.tolerance = 10000) =>
        \A e \in ReferenceTable :
            InEntry(call.frequencyMHz, e, 10000) =>
                /\ ret.value.frequency = call.frequencyMHz
                /\ ret.value.constellation # "UNKNOWN"
                /\ ret.value.band # "UNKNOWN"
                /\ ret.value.isDualFrequency = e.dual

\* the entries identifyFrequencyBand tests: those of the reference table it knows
TestedTable == ReferenceTable \ {[lo |-> 11917950, hi |-> 11917950, dual |-> TRUE],
                                 [lo |-> 12787500, hi |-> 12787500, dual |-> TRUE]}

\* C2: identifyFrequencyBand returns a FrequencyBandInfo for every frequency and
\* tolerance, and for a frequency more than the tolerance away from every nominal
\* value and GLONASS range it is exactly the UNKNOWN result carrying the frequency.
C2_TotalAndUnknown ==
    /\ (call.fn = "identifyFrequencyBand" /\ ret = NoRet) =>
            ENABLED CallIdentifyFrequencyBand
    /\ IdentifyDone =>
        /\ DOMAIN ret.value = {"frequency", "constellation", "band", "isDualFrequency"}
        /\ ret.value.frequency = call.frequencyMHz
        /\ ret.value.isDualFrequency \in BOOLEAN
        /\ (\A e \in TestedTable : ~InEntry(call.frequencyMHz, e, call.tolerance)) =>
                ret.value = [frequency |-> call.frequencyMHz, constellation |-> "UNKNOWN",
                             band |-> "UNKNOWN", isDualFrequency |-> FALSE]

\* 9999.0 MHz with tolerance 1.0 came back UNKNOWN
C2_Witness ==
    /\ IdentifyDone
    /\ call.frequencyMHz = 99990000
    /\ call.tolerance = 10000
    /\ ret.value.constellation = "UNKNOWN"

\* C3: every frequency within 1.0 MHz of 1176.45 is classified, with the default
\* tolerance, as GPS L5, dual-frequency, with the frequency passed in.
C3_GpsL5 ==
    (IdentifyDone /\ call.tolerance = 10000 /\ Within(call.frequencyMHz, 11764500, 10000)) =>
        ret.value = [frequency |-> call.frequencyMHz, constellation |-> "GPS",
                     band |-> "L5", isDualFrequency |-> TRUE]

\* 1177.45 MHz, on the edge of the tolerance, came back GPS L5
C3_Witness ==
    /\ IdentifyDone
    /\ call.tolerance = 10000
    /\ call.frequencyMHz = 11774500
    /\ ret.value.band = "L5"

\* the tests of identifyFrequencyBand in the order the claim declares
DeclaredOrder ==
    <<[lo |-> 15754200, hi |-> 15754200, c |-> "GPS", b |-> "L1", d |-> FALSE],
      [lo |-> 12276000, hi |-> 12276000, c |-> "GPS", b |-> "L2", d |-> TRUE],
      [lo |-> 11764500, hi |-> 11764500, c |-> "GPS", b |-> "L5", d |-> TRUE],
      [lo |-> 15980625, hi |-> 16053750, c |-> "GLONASS", b |-> "L1", d |-> FALSE],
      [lo |-> 12429375, hi |-> 12486250, c |-> "GLONASS", b |-> "L2", d |-> TRUE],
      [lo |-> 11764500, hi |-> 11764500, c |-> "GLONASS", b |-> "L5", d |-> TRUE],
      [lo |-> 15754200, hi |-> 15754200, c |-> "GALILEO", b |-> "E1", d |-> FALSE],
      [lo |-> 11764500, hi |-> 11764500, c |-> "GALILEO", b |-> "E5a", d |-> TRUE],
      [lo |-> 12071400, hi |-> 12071400, c |-> "GALILEO", b |-> "E5b", d |-> TRUE],
      [lo |-> 15610980, hi |-> 15610980, c |-> "BEIDOU", b |-> "B1", d |-> FALSE],
      [lo |-> 11764500, hi |-> 11764500, c |-> "BEIDOU", b |-> "B2a", d |-> TRUE],
      [lo |-> 12685200, hi |-> 12685200, c |-> "BEIDOU", b |-> "B3", d |-> TRUE],
      [lo |-> 15754200, hi |-> 15754200, c |-> "QZSS", b |-> "L1", d |-> FALSE],
      [lo |-> 11764500, hi |-> 11764500, c |-> "QZSS", b |-> "L5", d |-> TRUE],
      [lo |-> 11764500, hi |-> 11764500, c |-> "NAVIC", b |-> "L5", d |-> TRUE],
      [lo |-> 24920280, hi |-> 24920280, c |-> "NAVIC", b |-> "S", d |-> TRUE],
      [lo |-> 15754200, hi |-> 15754200, c |-> "SBAS", b |-> "L1", d |-> FALSE],
      [lo |-> 11764500, hi |-> 11764500, c |-> "SBAS", b |-> "L5", d |-> TRUE]>>

\* the positions of DeclaredOrder whose test holds for f and t
Matching(f, t) == {i \in 1..Len(DeclaredOrder) : InEntry(f, DeclaredOrder[i], t)}

\* C4: the result is the first entry, in the declared order, whose test holds (the
\* UNKNOWN result when none holds); so a frequency within the tolerance of 1575.42
\* is GPS L1, not dual-frequency, whatever the tolerance.
C4_FirstDeclaredMatch ==
    IdentifyDone =>
        LET f == call.frequencyMHz
            t == call.tolerance
            m == Matching(f, t)
        IN /\ m = {} => ret.value.constellation = "UNKNOWN" /\ ret.value.band = "UNKNOWN"
           /\ m # {} =>
                LET e == DeclaredOrder[CHOOSE i \in m : \A j \in m : i <= j]
                IN ret.value = [frequency |-> f, constellation |-> e.c, band |-> e.b,
                                isDualFrequency |-> e.d]
           /\ Within(f, 15754200, t) =>
                /\ ret.value.constellation = "GPS"
                /\ ret.value.band = "L1"
                /\ ret.value.isDualFrequency = FALSE

\* 1575.42 MHz, shared by four constellations, came back GPS L1 with tolerance 10.0
C4_Witness ==
    /\ IdentifyDone
    /\ call.frequencyMHz = 15754200
    /\ call.tolerance = 100000
    /\ Cardinality(Matching(call.frequencyMHz, call.tolerance)) >= 4
    /\ ret.value.constellation = "GPS"

\* the elements of a list
Elements(l) == {l[i] : i \in 1..Len(l)}

\* C5: isDualFrequencySupported is true exactly when identifyFrequencyBand with
\* tolerance 1.0 flags some element of the list as dual-frequency, which depends
\* on the elements only, not on their order or multiplicity; false for the empty
\* list and for [1575.42], true for [1575.42, 1176.45].
C5_SomeDual ==
    IsDualDone =>
        LET l == call.carrierFrequencies IN
        /\ ret.value = (\E f \in Elements(l) : identifyFrequencyBand(f, 10000).isDualFrequency)
        /\ l = <<>> => ret.value = FALSE
        /\ l = <<15754200>> => ret.value = FALSE
        /\ Elements(l) = {15754200, 11764500} => ret.value = TRUE

\* [1575.42, 1176.45] came back true
C5_Witness ==
    /\ IsDualDone
    /\ call.carrierFrequencies = <<15754200, 11764500>>
    /\ ret.value = TRUE

\* C6: with the default tolerance every frequency from 1242.9375 - 1.0 to
\* 1248.625 + 1.0 is GLONASS L2, dual-frequency, and 1242.9375 - 1.1 is not
\* GLONASS L2.
C6_GlonassL2 ==
    (IdentifyDone /\ call.tolerance = 10000) =>
        /\ (call.frequencyMHz >= 12429375 - 10000 /\ call.frequencyMHz <= 12486250 + 10000) =>
                ret.value = [frequency |-> call.frequencyMHz, constellation |-> "GLONASS",
                             band |-> "L2", isDualFrequency |-> TRUE]
        /\ call.frequencyMHz = 12429375 - 11000 =>
                ~(ret.value.constellation = "GLONASS" /\ ret.value.band = "L2")

\* 1241.9375 MHz, the lower end widened by 1.0, came back GLONASS L2
C6_Witness ==
    /\ IdentifyDone
    /\ call.tolerance = 10000
    /\ call.frequencyMHz = 12419375
    /\ ret.value.constellation = "GLONASS"
    /\ ret.value.band = "L2"

----------------------------------------------------------------------------
(* Claims about the native module (Spec) *)

\* getGNSSStatus has resolved with a Status Result
StatusResolved ==
    out.kind = "promise" /\ out.op = "getGNSSStatus" /\ out.state = "resolved"

\* the last thing delivered is the event of that name
EventOut(name) == out.kind = "event" /\ out.name = name

\* the lists and flag the claim compares: a Status Result or an onMeasurementsChanged
\* payload has been delivered
HasFrequencyPayload == StatusResolved \/ EventOut("onMeasurementsChanged")
FrequencyPayload == IF StatusResolved THEN out.value ELSE out.params

\* C7 (as claimed): the isDualFrequencySupported flag of a Status Result and of an
\* onMeasurementsChanged payload equals the classifier's isDualFrequencySupported
\* applied to the carrierFrequencies of the same payload.
C7_FlagEqualsClassifier ==
    HasFrequencyPayload =>
        FrequencyPayload.isDualFrequencySupported =
            isDualFrequencySupported(FrequencyPayload.carrierFrequencies)

\* the nominal values of the native flat list, in 0.0001 MHz
FlatList == {11764500, 12276000, 12071400, 12685200, 12787500, 11917950, 24920280}

\* C7 (amended): the flag is true exactly when some frequency of the payload's
\* carrierFrequencies is within 10.0 MHz of a value of the flat list or inside the
\* GLONASS L2 range widened by 10.0 MHz; it is true whenever the classifier's
\* isDualFrequencySupported is true of that list, and may be true when it is not.
C7_FlagIsCoarseCheck ==
    HasFrequencyPayload =>
        LET p == FrequencyPayload IN
        /\ p.isDualFrequencySupported =
              (\E f \in Elements(p.carrierFrequencies) :
                  \/ \E n \in FlatList : Within(f, n, 100000)
                  \/ (f >= 12429375 - 100000 /\ f <= 12486250 + 100000))
        /\ isDualFrequencySupported(p.carrierFrequencies) => p.isDualFrequencySupported

\* a Status Result whose only frequency, 1202.025 MHz, sets the flag although the
\* classifier finds no dual-frequency band
C7_Witness ==
    /\ StatusResolved
    /\ out.value.carrierFrequencies = <<12020250>>
    /\ out.value.isDualFrequencySupported
    /\ ~isDualFrequencySupported(out.value.carrierFrequencies)

\* the cached snapshot and the callback registrations
SnapshotAndCallbacks == <<cacheVars, callbackVars>>

\* C8: without the location permission getGNSSStatus and startListening reject
\* with PERMISSION_DENIED, never resolve, and leave the cached snapshot and both
\* callback registrations as they were.
C8_DeniedRejects ==
    [][(~permission /\ (CallGetGNSSStatus \/ CallStartListening)) =>
            /\ out'.kind = "promise"
            /\ out'.state = "rejected"
            /\ out'.code = "PERMISSION_DENIED"
            /\ SnapshotAndCallbacks' = SnapshotAndCallbacks]_vars

\* startListening was rejected for lack of permission while the module was
\* listening and held a snapshot
C8_Witness ==
    /\ ~permission
    /\ out.kind = "promise" /\ out.op = "startListening"
    /\ out.state = "rejected" /\ out.code = "PERMISSION_DENIED"
    /\ statusRegistered
    /\ satelliteDataList # <<>>
    /\ detectedFrequencies # {}

\* the cached snapshot is empty
CacheEmpty ==
    /\ currentSatelliteCount = 0
    /\ satellitesUsedInFix = 0
    /\ averageSignalToNoiseRatio = [num |-> 0, den |-> 1]
    /\ supportedConstellations = {}
    /\ detectedFrequencies = {}
    /\ satelliteDataList = <<>>

\* a Status Result that reports no data
ReportsNothing(r) ==
    /\ r.satellitesVisible = 0
    /\ r.satellitesUsedInFix = 0
    /\ r.averageSignalToNoiseRatio = [num |-> 0, den |-> 1]
    /\ r.supportedConstellations = <<>>
    /\ r.carrierFrequencies = <<>>
    /\ r.satellites = <<>>
    /\ ~r.isDualFrequencySupported
    /\ ~r.isNavICSupported

\* a push is delivered
Push == onSatelliteStatusChanged \/ onGnssMeasurementsReceived

\* C9: a stopListening that resolves leaves both callbacks unregistered and the
\* cached snapshot empty; the snapshot then stays empty until a push, a push needs
\* a registered callback, only startListening registers one, and while the
\* snapshot is empty getGNSSStatus reports no data.
C9_StopClears ==
    [][/\ (CallStopListening /\ out'.state = "resolved") =>
            /\ ~statusRegistered' /\ ~measRegistered'
            /\ ~gnssStatusCallback' /\ ~gnssMeasurementsCallback'
            /\ CacheEmpty'
       /\ (CacheEmpty /\ ~CacheEmpty') => (Push /\ (statusRegistered \/ measRegistered))
       /\ ((~statusRegistered /\ statusRegistered') \/ (~measRegistered /\ measRegistered'))
            => CallStartListening
       /\ (CacheEmpty /\ CallGetGNSSStatus /\ out'.state = "resolved")
            => ReportsNothing(out'.value)]_vars

\* stopListening has resolved and nothing is registered or cached
C9_Witness ==
    /\ out.kind = "promise" /\ out.op = "stopListening" /\ out.state = "resolved"
    /\ ~statusRegistered /\ ~measRegistered
    /\ CacheEmpty

\* the number of entries of a list of satellites that are used in the fix
UsedCount(l) == Cardinality({i \in 1..Len(l) : l[i].usedInFix})

\* C10: between operations satellitesVisible is the length of the cached satellite
\* list, satellitesUsedInFix the number of its records used in the fix, and
\* 0 <= satellitesUsedInFix <= satellitesVisible; a satellite-status push makes
\* both the counts of the status pushed.
C10_Counts ==
    /\ [](/\ currentSatelliteCount = Len(satelliteDataList)
          /\ satellitesUsedInFix = UsedCount(satelliteDataList)
          /\ 0 <= satellitesUsedInFix
          /\ satellitesUsedInFix <= currentSatelliteCount)
    /\ [][(statusRegistered /\ out'.kind = "event"
               /\ out'.name = "onSatelliteStatusChanged") =>
            \A status \in GnssStatuses :
                updateSatelliteStatus(status) =>
                    /\ currentSatelliteCount' = Len(status)
                    /\ satellitesUsedInFix' = UsedCount(status)
                    /\ Len(satelliteDataList') = Len(status)]_vars

\* a push of two satellites, one of them used in the fix, has been processed
C10_Witness ==
    /\ EventOut("onSatelliteStatusChanged")
    /\ currentSatelliteCount = 2
    /\ satellitesUsedInFix = 1
    /\ Len(satelliteDataList) = 2

----------------------------------------------------------------------------
(* Claims about the lists of a Status Result and of the event payloads (Spec) *)

\* no element of the list occurs at two positions
NoRepeat(l) == \A i, j \in 1..Len(l) : i # j => l[i] # l[j]

\* a Status Result or an onSatelliteStatusChanged payload has been delivered
HasSatellitePayload == StatusResolved \/ EventOut("onSatelliteStatusChanged")
SatellitePayload == IF StatusResolved THEN out.value ELSE out.params

\* C11 (as claimed): supportedConstellations of every Status Result and every
\* onSatelliteStatusChanged payload holds no name twice, and carrierFrequencies of
\* every Status Result and every onMeasurementsChanged payload holds no value
\* twice, whatever the snapshot, type codes outside 1..7 included.
C11_NoDuplicates ==
    /\ HasSatellitePayload => NoRepeat(SatellitePayload.supportedConstellations)
    /\ HasFrequencyPayload => NoRepeat(FrequencyPayload.carrierFrequencies)

\* the list without the later occurrences of its elements
RECURSIVE FirstSeen(_)
FirstSeen(l) ==
    IF l = <<>> THEN <<>>
    ELSE LET init == FirstSeen(SubSeq(l, 1, Len(l) - 1))
             last == l[Len(l)]
         IN IF last \in Elements(init) THEN init ELSE Append(init, last)

\* the constellation names of the satellite records of a payload, in order
RecordNames(p) == [i \in 1..Len(p.satellites) |-> p.satellites[i].constellationName]

\* C12 (as claimed): supportedConstellations of a Status Result and of an
\* onSatelliteStatusChanged payload lists the constellation names in the order in
\* which they first appear among the satellite records of the same payload.
C12_FirstSeenOrder ==
    HasSatellitePayload =>
        SatellitePayload.supportedConstellations = FirstSeen(RecordNames(SatellitePayload))

\* names passed to the helper isNavICSupported
SampleNames == {"GPS", "IRNSS", "UNKNOWN", "NAVIC", "irnss"}

\* C13: in every Status Result and every onSatelliteStatusChanged payload
\* isNavICSupported is true exactly when "IRNSS" is an element of the
\* supportedConstellations of the same payload, and the helper
\* isNavICSupported(names) is true exactly when "IRNSS" is in names, for the
\* names of the payload and for every list of sample names.
C13_NavICIffIrnssListed ==
    /\ HasSatellitePayload =>
          LET p == SatellitePayload IN
          /\ p.isNavICSupported = ("IRNSS" \in Elements(p.supportedConstellations))
          /\ isNavICSupported(p.supportedConstellations) = p.isNavICSupported
    /\ \A names \in SeqsUpTo(SampleNames, MaxList) :
          isNavICSupported(names) = ("IRNSS" \in Elements(names))

\* a Status Result after a push with an IRNSS satellite and another one
C13_Witness ==
    /\ StatusResolved
    /\ out.value.isNavICSupported
    /\ Len(out.value.supportedConstellations) = 2
    /\ isNavICSupported(out.value.supportedConstellations)

\* C14 (as claimed): every Status Result getGNSSStatus resolves with holds a
\* frequencyBands list equal to getFrequencyBandInfo of its carrierFrequencies.
C14_ResultHasFrequencyBands ==
    StatusResolved =>
        /\ "frequencyBands" \in DOMAIN out.value
        /\ out.value.frequencyBands = getFrequencyBandInfo(out.value.carrierFrequencies)

\* the positions of the records that carry a signal value
WithSignal(l) == {i \in 1..Len(l) : l[i].cn0DbHz # Null}

\* the sum of the signal values the records carry
RECURSIVE SignalSum(_)
SignalSum(l) ==
    IF l = <<>> THEN 0
    ELSE (IF Head(l).cn0DbHz # Null THEN Head(l).cn0DbHz[1] ELSE 0) + SignalSum(Tail(l))

\* C15: averageSignalToNoiseRatio is the arithmetic mean of the signal values
\* present among the cached satellite records (average * count = sum), and 0.0
\* when no record carries one: the empty snapshot, the state before any push and
\* the state after stopListening included.
C15_AverageIsMean ==
    /\ averageSignalToNoiseRatio.den > 0
    /\ IF WithSignal(satelliteDataList) = {}
          THEN averageSignalToNoiseRatio.num = 0
          ELSE averageSignalToNoiseRatio.num * Cardinality(WithSignal(satelliteDataList))
                  = SignalSum(satelliteDataList) * averageSignalToNoiseRatio.den

\* after a push of one satellite with a signal value and one without, the average
\* is that one value
C15_Witness ==
    /\ EventOut("onSatelliteStatusChanged")
    /\ Len(satelliteDataList) = 2
    /\ Cardinality(WithSignal(satelliteDataList)) = 1
    /\ averageSignalToNoiseRatio = [num |-> 250, den |-> 1]

----------------------------------------------------------------------------
(* Claims about the satellite aggregators (SpecJs) *)

\* the aggregator of that name has returned
AggregatorDone(fn) == call.fn = fn /\ ret # NoRet

\* the elements of l at the positions idx, in the order of l
Selected(l, idx) ==
    [k \in 1..Cardinality(idx) |->
        l[CHOOSE i \in idx : Cardinality({j \in idx : j < i}) = k - 1]]

\* the positions of the records with a signal value of at least m
AtLeast(l, m) == {i \in 1..Len(l) : l[i].cn0DbHz # <<>> /\ l[i].cn0DbHz[1] >= m}

\* C16: getSatellitesWithGoodSignal returns exactly the records whose signal is
\* present and at least minCn0, in input order; no record without a signal is in
\* the result, whatever the threshold (0 and negative ones included).
C16_GoodSignalExact ==
    AggregatorDone("getSatellitesWithGoodSignal") =>
        /\ ret.value = Selected(call.satellites, AtLeast(call.satellites, call.minCn0))
        /\ \A k \in 1..Len(ret.value) : ret.value[k].cn0DbHz # <<>>

\* a negative threshold, a list of three with a record without a signal, and
\* the two others returned
C16_Witness ==
    /\ AggregatorDone("getSatellitesWithGoodSignal")
    /\ call.minCn0 < 0
    /\ Len(call.satellites) = 3
    /\ \E i \in 1..3 : call.satellites[i].cn0DbHz = <<>>
    /\ Len(ret.value) = 2

\* C17: for a list in which no record has a signal (the empty list included)
\* getSatelliteStatistics reports average, strongest and weakest signal 0, the
\* average being no quotient by zero; for the empty list every count is 0 and
\* byConstellation is the empty mapping.
C17_NoSignalStatistics ==
    (AggregatorDone("getSatelliteStatistics") /\ WithSignal(call.satellites) = {}) =>
        /\ ret.value.strongestSignal = 0
        /\ ret.value.weakestSignal = 0
        /\ ret.value.averageSignalStrength.den # 0
        /\ ret.value.averageSignalStrength.num = 0
        /\ call.satellites = <<>> =>
              /\ ret.value.total = 0
              /\ ret.value.usedInFix = 0
              /\ ret.value.withEphemeris = 0
              /\ ret.value.withAlmanac = 0
              /\ ret.value.withGoodSignal = 0
              /\ DOMAIN ret.value.byConstellation = {}

\* the statistics of a list of two records, neither with a signal
C17_Witness ==
    /\ AggregatorDone("getSatelliteStatistics")
    /\ Len(call.satellites) = 2
    /\ WithSignal(call.satellites) = {}
    /\ ret.value.total = 2
    /\ ret.value.weakestSignal = 0

\* the signal values present in the list
PresentSignals(l) == {l[i].cn0DbHz[1] : i \in WithSignal(l)}

\* C18: for a list with a signal value getSatelliteStatistics reports the mean
\* (average * count = sum), the maximum and the minimum of the present values
\* only, so weakest <= average <= strongest; for signals 25.0, 30.0, undefined
\* it reports 27.5, 30.0, 25.0 and withGoodSignal 2.
C18_SignalStatistics ==
    (AggregatorDone("getSatelliteStatistics") /\ WithSignal(call.satellites) # {}) =>
        LET l == call.satellites
            r == ret.value
            avg == r.averageSignalStrength
        IN /\ avg.den > 0
           /\ avg.num * Cardinality(WithSignal(l)) = SignalSum(l) * avg.den
           /\ r.strongestSignal \in PresentSignals(l)
           /\ \A v \in PresentSignals(l) : v <= r.strongestSignal
           /\ r.weakestSignal \in PresentSignals(l)
           /\ \A v \in PresentSignals(l) : v >= r.weakestSignal
           /\ r.weakestSignal * avg.den <= avg.num
           /\ avg.num <= r.strongestSignal * avg.den
           /\ [i \in 1..Len(l) |-> l[i].cn0DbHz] = <<(<<250>>), (<<300>>), (<<>>)>> =>
                 /\ avg.num = 275 * avg.den
                 /\ r.strongestSignal = 300
                 /\ r.weakestSignal = 250
                 /\ r.withGoodSignal = 2

\* the statistics of signals 25.0, 30.0, undefined
C18_Witness ==
    /\ AggregatorDone("getSatelliteStatistics")
    /\ [i \in 1..Len(call.satellites) |-> call.satellites[i].cn0DbHz]
          = <<(<<250>>), (<<300>>), (<<>>)>>
    /\ ret.value.strongestSignal = 300
    /\ ret.value.weakestSignal = 250

\* the sum of the values of a mapping
RECURSIVE ValueSum(_)
ValueSum(f) ==
    IF DOMAIN f = {} THEN 0
    ELSE LET k == CHOOSE x \in DOMAIN f : TRUE
         IN f[k] + ValueSum([x \in DOMAIN f \ {k} |-> f[x]])

\* C19: getSatelliteStatistics reports total = list length, usedInFix,
\* withEphemeris, withAlmanac = number of records with that flag, withGoodSignal
\* = number of records with a signal of at least 20, which is the length of
\* getSatellitesWithGoodSignal(list, 20), and byConstellation maps each name in
\* the list, and no other, to its number of records, so its counts sum to total.
C19_StatisticsCounts ==
    AggregatorDone("getSatelliteStatistics") =>
        LET l == call.satellites
            r == ret.value
        IN /\ r.total = Len(l)
           /\ r.usedInFix = Cardinality({i \in 1..Len(l) : l[i].usedInFix})
           /\ r.withEphemeris = Cardinality({i \in 1..Len(l) : l[i].hasEphemeris})
           /\ r.withAlmanac = Cardinality({i \in 1..Len(l) : l[i].hasAlmanac})
           /\ r.withGoodSignal = Cardinality(AtLeast(l, 200))
           /\ r.withGoodSignal = Len(getSatellitesWithGoodSignal(l, 200))
           /\ DOMAIN r.byConstellation = {l[i].constellationName : i \in 1..Len(l)}
           /\ \A name \in DOMAIN r.byConstellation :
                 r.byConstellation[name] =
                    Cardinality({i \in 1..Len(l) : l[i].constellationName = name})
           /\ ValueSum(r.byConstellation) = r.total

\* the statistics of three records of two constellations, one of them twice
C19_Witness ==
    /\ AggregatorDone("getSatelliteStatistics")
    /\ ret.value.total = 3
    /\ Cardinality(DOMAIN ret.value.byConstellation) = 2
    /\ \E name \in DOMAIN ret.value.byConstellation : ret.value.byConstellation[name] = 2
    /\ ret.value.withGoodSignal = 1

\* the four aggregators
AggregatorNames ==
    {"getSatellitesByConstellation", "getSatellitesUsedInFix",
     "getSatellitesWithGoodSignal", "getSatelliteStatistics"}

\* the filter that was called, applied to what it returned, returns the same
FilterOfOutputIsOutput ==
    /\ AggregatorDone("getSatellitesByConstellation") =>
          getSatellitesByConstellation(ret.value, call.constellationType) = ret.value
    /\ AggregatorDone("getSatellitesUsedInFix") =>
          getSatellitesUsedInFix(ret.value) = ret.value
    /\ AggregatorDone("getSatellitesWithGoodSignal") =>
          getSatellitesWithGoodSignal(ret.value, call.minCn0) = ret.value

C21_FiltersExact ==
    /\ AggregatorDone("getSatellitesByConstellation") =>
          ret.value = Selected(call.satellites,
                {i \in 1..Len(call.satellites) :
                    call.satellites[i].constellationType = call.constellationType})
    /\ AggregatorDone("getSatellitesUsedInFix") =>
          ret.value = Selected(call.satellites,
                {i \in 1..Len(call.satellites) : call.satellites[i].usedInFix})

\* the GPS records of a list of three in which a record of another constellation
\* stands between two GPS records
C21_Witness ==
    /\ AggregatorDone("getSatellitesByConstellation")
    /\ call.constellationType = 1
    /\ Len(call.satellites) = 3
    /\ call.satellites[2].constellationType # 1
    /\ Len(ret.value) = 2
    /\ ret.value[1] = call.satellites[1]
    /\ ret.value[2] = call.satellites[3]

\* C22: getFrequencyBandInfo returns a list as long as its input whose i-th
\* element is identifyFrequencyBand of the i-th frequency with tolerance 1.0;
\* order is kept and a repeated frequency yields a repeated match.
C22_BandInfoMapsInOrder ==
    (call.fn = "getFrequencyBandInfo" /\ ret # NoRet) =>
        /\ Len(ret.value) = Len(call.carrierFrequencies)
        /\ \A i \in 1..Len(ret.value) :
              ret.value[i] = identifyFrequencyBand(call.carrierFrequencies[i], 10000)

\* the matches of a list that holds 1176.45 twice
C22_Witness ==
    /\ call.fn = "getFrequencyBandInfo"
    /\ ret # NoRet
    /\ call.carrierFrequencies = <<11764500, 11764500>>
    /\ Len(ret.value) = 2
    /\ ret.value[1] = ret.value[2]

----------------------------------------------------------------------------
(* Claims that compare the classifier with the native check (SpecJs) *)

\* C28 (as claimed): for a frequency within 1.0 MHz of a value of the native flat
\* list, or inside the GLONASS L2 range widened by 1.0 MHz, the native check and
\* isDualFrequencySupported of the one-element list give the same answer.
C28_ChecksAgreeWithin1MHz ==
    (IsDualDone /\ Len(call.carrierFrequencies) = 1) =>
        LET f == call.carrierFrequencies[1] IN
        ((\E n \in FlatList : Within(f, n, 10000))
            \/ (f >= 12429375 - 10000 /\ f <= 12486250 + 10000)) =>
                ret.value = nativeIsDualFrequency({f})

\* the bands the claim calls primary, with UNKNOWN, and the others it lists
PrimaryBands == {"L1", "E1", "B1", "UNKNOWN"}
SecondaryBands == {"L2", "L5", "E5a", "E5b", "B2a", "B3", "S"}

\* C29: for every frequency and tolerance the band returned is one of the listed
\* bands and isDualFrequency is false exactly when it is L1, E1, B1 or UNKNOWN.
C29_FlagFollowsBand ==
    IdentifyDone =>
        /\ ret.value.band \in PrimaryBands \cup SecondaryBands
        /\ ret.value.isDualFrequency = (ret.value.band \notin PrimaryBands)

\* a GLONASS L1 result under a tolerance other than the default
C29_Witness ==
    /\ IdentifyDone
    /\ call.tolerance # 10000
    /\ ret.value.constellation = "GLONASS"
    /\ ret.value.band = "L1"
    /\ ~ret.value.isDualFrequency

----------------------------------------------------------------------------
(* Claims about the callback fields and about what a push replaces (Spec) *)

\* C25 (as claimed): in every reachable state each callback field is non-null
\* exactly when that callback is registered with LocationManager.
C25_FieldIffRegistered ==
    /\ gnssStatusCallback = statusRegistered
    /\ gnssMeasurementsCallback = measRegistered

\* C26: a step that ends with the event of a satellite-status push leaves
\* detectedFrequencies unchanged, a step that ends with the event of a measurement
\* push leaves the count, the used count, the average, the constellation set and the
\* satellite records unchanged, and a step that settles getGNSSStatus changes no
\* cached field and no callback field or registration.
C26_Frame ==
    [][/\ EventOut("onSatelliteStatusChanged")' =>
             detectedFrequencies' = detectedFrequencies
       /\ EventOut("onMeasurementsChanged")' =>
             /\ currentSatelliteCount' = currentSatelliteCount
             /\ satellitesUsedInFix' = satellitesUsedInFix
             /\ averageSignalToNoiseRatio' = averageSignalToNoiseRatio
             /\ supportedConstellations' = supportedConstellations
             /\ satelliteDataList' = satelliteDataList
       /\ (out'.kind = "promise" /\ out'.op = "getGNSSStatus") =>
             SnapshotAndCallbacks' = SnapshotAndCallbacks]_vars

\* a satellite-status push has been processed and the frequencies of an earlier
\* measurement push are still cached
C26_Witness ==
    /\ EventOut("onSatelliteStatusChanged")
    /\ satelliteDataList # <<>>
    /\ detectedFrequencies # {}

\* the carrier frequencies in Hz an event reports on a platform that reports them
ReportedHz(event) ==
    {event[i].carrierFrequencyHz : i \in {j \in 1..Len(event) : event[j].hasCarrierFrequencyHz}}

\* C27: after a satellite-status push the constellation set and the satellite records
\* are exactly those of that push; after a measurement push the frequency set is
\* exactly the push's reported frequencies divided by 1e6 where the platform reports
\* carrier frequencies (API 26), and empty where it does not.
C27_WholesaleReplacement ==
    [][/\ \A status \in GnssStatuses :
             (EventOut("onSatelliteStatusChanged")' /\ updateSatelliteStatus(status)) =>
                /\ supportedConstellations' =
                      {status[i].constellationType : i \in 1..Len(status)}
                /\ Len(satelliteDataList') = Len(status)
                /\ \A i \in 1..Len(status) :
                      /\ satelliteDataList'[i].svid = status[i].svid
                      /\ satelliteDataList'[i].constellationType = status[i].constellationType
                      /\ satelliteDataList'[i].usedInFix = status[i].usedInFix
       /\ \A event \in GnssMeasurementsEvents :
             (EventOut("onMeasurementsChanged")' /\ updateMeasurements(event)) =>
                IF sdkInt >= VERSION_CODES_O
                   THEN {f * HzPerUnit : f \in detectedFrequencies'} = ReportedHz(event)
                   ELSE detectedFrequencies' = {}]_vars

\* a one-satellite push has replaced the records, and the frequency set holds the
\* two frequencies of the last measurement push
C27_Witness ==
    /\ EventOut("onSatelliteStatusChanged")
    /\ Len(satelliteDataList) = 1
    /\ supportedConstellations = {CONSTELLATION_IRNSS}
    /\ detectedFrequencies = {15754200, 11764500}

\* the fields the satellite event shares with the Status Result
SatelliteEventFields ==
    {"satellitesVisible", "satellitesUsedInFix", "supportedConstellations",
     "isNavICSupported", "satellites"}
\* the fields the measurements event shares with the Status Result
MeasurementEventFields == {"carrierFrequencies", "isDualFrequencySupported"}

----------------------------------------------------------------------------
(* Claims about interleaved and failing handlers (SpecSteps) *)

\* C23 (as claimed): every Status Result resolved while a push is being processed
\* is consistent (satellitesVisible is the length of satellites, satellitesUsedInFix
\* is the number of its records used in the fix, supportedConstellations holds
\* exactly the constellation names of its records), and getGNSSStatus never rejects
\* with GNSS_ERROR because of the interleaving.
C23_ConsistentSnapshots ==
    /\ StatusResolved =>
          LET r == out.value IN
          /\ r.satellitesVisible = Len(r.satellites)
          /\ r.satellitesUsedInFix =
                Cardinality({i \in 1..Len(r.satellites) : r.satellites[i].usedInFix})
          /\ {r.supportedConstellations[i] : i \in 1..Len(r.supportedConstellations)} =
                {r.satellites[i].constellationName : i \in 1..Len(r.satellites)}
    /\ ~(/\ out.kind = "promise" /\ out.op = "getGNSSStatus"
         /\ out.state = "rejected" /\ out.code = "GNSS_ERROR")

\* C24 (as claimed): after a push that failed part-way the callback is still
\* registered and the cached fields are those held before that push.
C24_FailedPushKeepsSnapshot ==
    Crashed => (statusRegistered /\ Snapshot = updating.before)

====
